---- MODULE Spec2Model ----
(***************************************************************************)
(* Recursive research tree engine of deep-research (src/src/research.ts).  *)
(* performDeepResearch is an async function: every await on an external    *)
(* call (search, relevance check, insight synthesis, follow-up generation) *)
(* is a suspension point, and the completion of one external call runs the *)
(* whole chain of continuations it releases before the next completion is  *)
(* handled (microtasks drain before the next event).  Each invocation is   *)
(* identified by its position in the tree: the root is <<>>, and the       *)
(* invocation for follow-up question i of invocation p is Append(p, i).    *)
(***************************************************************************)
EXTENDS Integers, Sequences, FiniteSets, Bags, TLC

VARIABLES
    config,          \* the ResearchConfig handed to the top-level call
    pc,              \* per invocation: the await it is suspended at
    node,            \* per invocation: its ResearchNode
    fullResults,     \* per invocation: searchResult.results (raw results)
    calls,           \* per invocation: state of its search/insights/questions call
    relevanceTask,   \* per invocation: state of each relevancePromises[i]
    relevanceValue,  \* per invocation: value each relevancePromises[i] resolved with
    followUpTask,    \* per invocation: state of each followUpPromises[i]
    followUpOrder,   \* per invocation: indexes of followUpPromises in settling order
    limit,           \* per limiter: activeCount and queue of p-limit
    error,           \* per invocation: the error it rejected with
    failures,        \* history: the external calls that failed (node, call)
    requests,        \* history: the external calls each invocation has issued
    topResult,       \* what the caller of the top-level call has received
    researchTree,    \* summarizeResearch: the tree it is given
    summary,         \* summarizeResearch: the ResearchSummary it returned
    allSources,      \* workflow step 5: the concatenated allSources of the summaries
    uniqueSources,   \* workflow step 5: the deduplicated, sorted source list
    combinedInsights, \* workflow step 5: the concatenated allInsights of the summaries
    uniqueInsights,  \* workflow step 5: the deduplicated insight list
    reportText,      \* generateMarkdownReport: reportContent.text, as characters
    maxCitationNumber, \* generateMarkdownReport: data.sources.length
    validatedReport, \* generateMarkdownReport: the text after the citation pass
    revalidatedReport, \* the citation pass applied to validatedReport once more
    sourceResult,    \* toLightweightResult: the SearchResult it is given
    lightweightResult, \* toLightweightResult: the LightweightSearchResult it returned
    researchTrees,   \* workflow run: the trees of step 3, one per initial query
    summaries,       \* workflow run: the summaries step 4 returned
    finalAnalysis,   \* workflow run: what step 5 returned
    finalResult,     \* workflow run: the WorkflowOutput the run returned
    runStatus,       \* workflow run: running, complete or errored
    agentState,      \* agent: this.state of the ResearcherAgent
    instances,       \* agent: the workflow instances behind env.DEEP_RESEARCH_WORKFLOW
    handler,         \* agent: per connection, the await its handler is suspended at
    scheduled,       \* agent: the checkWorkflowStatus tasks waiting to run
    querying,        \* agent: the checkWorkflowStatus tasks awaiting the status query
    sent,            \* agent: the messages sent by the last step, in order
    completions,     \* history: per workflow, the completion broadcasts of its checks
    cancelCleared    \* history: a cancel cleared the state and no workflow started since

buildVars == <<config, pc, node, fullResults, calls, relevanceTask, relevanceValue,
               followUpTask, followUpOrder, limit, error, failures, requests, topResult>>
summaryVars == <<researchTree, summary>>
combineVars == <<allSources, uniqueSources, combinedInsights, uniqueInsights>>
citationVars == <<reportText, maxCitationNumber, validatedReport, revalidatedReport>>
lightweightVars == <<sourceResult, lightweightResult>>
workflowVars == <<researchTrees, summaries, finalAnalysis, finalResult, runStatus>>
agentVars == <<agentState, instances, handler, scheduled, querying, sent, completions,
               cancelCleared>>

vars == <<buildVars, summaryVars, combineVars, citationVars, lightweightVars, workflowVars,
          agentVars>>

----------------------------------------------------------------------------
(* Bounds of the model. *)

MaxDepthBound == 2       \* config.maxDepth ranges over 0..MaxDepthBound
MaxFollowUps == 2        \* config.followUpQuestionsPerNode ranges over 0..MaxFollowUps
MaxResults == 2          \* config.resultsPerQuery ranges over 0..MaxResults
MaxConcurrency == 2      \* config.concurrencyLimit ranges over 0..MaxConcurrency

(* Program constants. *)

RelevanceThreshold == 70
SnippetLimit == 300
MinInsights == 3
MaxInsights == 5
DefaultConcurrency == 1

----------------------------------------------------------------------------
(* Optional values (a property that may be undefined). *)

None == [some |-> FALSE]
Some(v) == [some |-> TRUE, val |-> v]

\* a property that is present with the value null
Null == [some |-> FALSE, null |-> TRUE]

Min(a, b) == IF a <= b THEN a ELSE b

(* The invocations of the tree. *)
Root == <<>>
Paths == UNION {[1..n -> 1..MaxFollowUps] : n \in 0..(MaxDepthBound - 1)}
IsRoot(p) == Len(p) = 0
Parent(p) == SubSeq(p, 1, Len(p) - 1)
IndexInParent(p) == p[Len(p)]
Child(p, i) == Append(p, i)

----------------------------------------------------------------------------
(* What the external capabilities can answer. *)

ResultA == [title |-> Some("T"), url |-> "u1", text |-> Some("abc"), score |-> Some(1)]
ResultB == [title |-> None, url |-> "u1", text |-> None, score |-> None]
ResultC == [title |-> Some(""), url |-> "u2", text |-> Some(""), score |-> Some(0)]

SearchCatalogs == {<<ResultA, ResultB, ResultC>>, <<ResultA, ResultC, ResultB>>}

\* exa.searchAndContents(query, {numResults}): at most numResults results
SearchResponses(numResults) ==
    {SubSeq(c, 1, k) : c \in SearchCatalogs, k \in 0..Min(numResults, 3)}

\* the object checkRelevance returns (reasoning plays no role in the algorithm)
RelevanceAnswers ==
    { [isRelevant |-> TRUE, relevanceScore |-> 69],
      [isRelevant |-> TRUE, relevanceScore |-> 70],
      [isRelevant |-> FALSE, relevanceScore |-> 100] }

InsightPool == <<"A", "B", "A", "C", "D">>

\* generateInsights: the schema admits MinInsights..MaxInsights strings
InsightAnswers == {SubSeq(InsightPool, 1, n) : n \in {MinInsights, MaxInsights}}

QuestionPool == <<"q1", "q2">>

\* generateFollowUpQuestions: the schema admits exactly count strings
FollowUpAnswers(count) ==
    {[i \in 1..count |-> QuestionPool[((i + k) % 2) + 1]] : k \in 0..1}

RootQuery == "q0"

\* errors thrown by the external clients; they know nothing of the tree
SearchError == [kind |-> "search", query |-> None, depth |-> None]
GenerationError(call) == [kind |-> call, query |-> None, depth |-> None]
NoError == [kind |-> "none", query |-> None, depth |-> None]

----------------------------------------------------------------------------
(* Pure functions of research.ts. *)

\* result.title ?? "Untitled": only a missing or null title is replaced
TitleOfNullish(result) ==
    IF result.title.some THEN result.title.val ELSE "Untitled"

\* result.title || "Untitled"
TitleOf(result) ==
    IF result.title.some /\ result.title.val # "" THEN result.title.val ELSE "Untitled"

\* a snippet that ends in "..." when the text was cut
SnippetOfEllipsis(result) ==
    LET text == IF result.text.some THEN result.text.val ELSE ""
    IN IF Len(text) > SnippetLimit
       THEN SubSeq(text, 1, SnippetLimit - 3) \o "..."
       ELSE text

\* (result.text || "").substring(0, 300)
SnippetOf(result) ==
    LET text == IF result.text.some THEN result.text.val ELSE ""
    IN SubSeq(text, 1, Min(SnippetLimit, Len(text)))

toLightweightResult(result) ==
    [title |-> TitleOf(result), url |-> result.url,
     snippet |-> SnippetOf(result), score |-> result.score]

MapLightweight(results) == [i \in 1..Len(results) |-> toLightweightResult(results[i])]

RECURSIVE FilterIndexesStrict(_, _, _)
\* a filter that compares with > instead of >=
FilterIndexesStrict(checks, i, n) ==
    IF i > n THEN <<>>
    ELSE IF checks[i].isRelevant /\ checks[i].relevanceScore > RelevanceThreshold
         THEN <<i>> \o FilterIndexesStrict(checks, i + 1, n)
         ELSE FilterIndexesStrict(checks, i + 1, n)

RECURSIVE FilterIndexes(_, _, _)
\* the indexes i..n of checks that pass isRelevant && relevanceScore >= 70, ascending
FilterIndexes(checks, i, n) ==
    IF i > n THEN <<>>
    ELSE IF checks[i].isRelevant /\ checks[i].relevanceScore >= RelevanceThreshold
         THEN <<i>> \o FilterIndexes(checks, i + 1, n)
         ELSE FilterIndexes(checks, i + 1, n)

\* fullResults.filter((_r, index) => relevanceChecks[index].isRelevant && ... >= 70)
relevantFullResults(results, checks) ==
    LET idx == FilterIndexes(checks, 1, Len(results))
    IN [j \in 1..Len(idx) |-> results[idx[j]]]

RECURSIVE StoreScoresFirstWins(_, _, _, _)
\* the score of a url is stored only when the url has no score yet
StoreScoresFirstWins(scores, results, checks, i) ==
    IF i > Len(results) THEN scores
    ELSE LET url == results[i].url
             next == [u \in (DOMAIN scores) \cup {url} |->
                         IF u \in DOMAIN scores THEN scores[u]
                         ELSE checks[i].relevanceScore]
         IN StoreScoresFirstWins(next, results, checks, i + 1)

RECURSIVE StoreScores(_, _, _, _)
\* node.searchResults.forEach((result, index) => node.relevanceScores[result.url] = ...)
StoreScores(scores, results, checks, i) ==
    IF i > Len(results) THEN scores
    ELSE LET url == results[i].url
             next == [u \in (DOMAIN scores) \cup {url} |->
                         IF u = url THEN checks[i].relevanceScore ELSE scores[u]]
         IN StoreScores(next, results, checks, i + 1)

EmptyScores == [u \in {} |-> 0]

\* config.concurrencyLimit || 1
concurrencyLimit(cfg) ==
    IF cfg.concurrencyLimit = 0 THEN DefaultConcurrency ELSE cfg.concurrencyLimit

----------------------------------------------------------------------------
(* The state the continuations work on, as one record. *)

State ==
    [pc |-> pc, node |-> node, fullResults |-> fullResults, calls |-> calls,
     relevanceTask |-> relevanceTask, relevanceValue |-> relevanceValue,
     followUpTask |-> followUpTask, followUpOrder |-> followUpOrder,
     limit |-> limit, error |-> error, failures |-> failures,
     requests |-> requests, topResult |-> topResult]

\* a node created with a placeholder insight
NewNodePlaceholder(query, currentDepth) ==
    [query |-> query, searchResults |-> <<>>, relevantResults |-> <<>>,
     relevanceScores |-> EmptyScores, insights |-> <<"pending">>,
     followUpQuestions |-> <<>>, depth |-> currentDepth, children |-> <<>>]

\* lines 482-492: const node: ResearchNode = {...}
NewNode(query, currentDepth) ==
    [query |-> query, searchResults |-> <<>>, relevantResults |-> <<>>,
     relevanceScores |-> EmptyScores, insights |-> <<>>, followUpQuestions |-> <<>>,
     depth |-> currentDepth, children |-> <<>>]

NoCalls == [search |-> "none", insights |-> "none", questions |-> "none"]
\* number of search calls, number of relevance checks per search result, and the
\* count the follow-up generator was asked for
NoRequests == [search |-> 0, relevance |-> <<>>, questionCount |-> None]
NewLimit == [activeCount |-> 0, queue |-> <<>>]

\* one limiter created by the top-level call and shared by the whole tree
SharedLimiter(p) == Root

\* const limit = pLimit(concurrencyLimit): every invocation creates its own limiter
LimiterOf(p) == p

\* entry of performDeepResearch up to the await on exa.searchAndContents
Invoke(s, p, query, currentDepth) ==
    [s EXCEPT !.pc[p] = "search",
              !.node[p] = NewNode(query, currentDepth),
              !.calls[p].search = "pending",
              !.requests[p].search = @ + 1]

\* p-limit starts a task: the async function passed to limit(...) runs
RunTask(s, t) ==
    IF t.kind = "relevance"
    THEN [s EXCEPT !.relevanceTask[t.node][t.index] = "running",
                   !.requests[t.node].relevance[t.index] = @ + 1]
    ELSE Invoke([s EXCEPT !.followUpTask[t.node][t.index] = "running"],
                Child(t.node, t.index),
                s.node[t.node].followUpQuestions[t.index],
                s.node[t.node].depth + 1)

\* a limiter that lets one task more than its concurrency run
LimitEnqueueOneMore(s, t) ==
    LET l == LimiterOf(t.node)
    IN IF s.limit[l].activeCount <= concurrencyLimit(config)
       THEN RunTask([s EXCEPT !.limit[l].activeCount = @ + 1], t)
       ELSE [s EXCEPT !.limit[l].queue = Append(@, t)]

\* p-limit, limit(fn): run at once while activeCount < concurrency, else queue
LimitEnqueue(s, t) ==
    LET l == LimiterOf(t.node)
    IN IF s.limit[l].activeCount < concurrencyLimit(config)
       THEN RunTask([s EXCEPT !.limit[l].activeCount = @ + 1], t)
       ELSE [s EXCEPT !.limit[l].queue = Append(@, t)]

\* p-limit, after a task settles: release the slot and start the head of the queue
LimitNext(s, l) ==
    LET q == s.limit[l].queue
    IN IF Len(q) = 0
       THEN [s EXCEPT !.limit[l].activeCount = @ - 1]
       ELSE RunTask([s EXCEPT !.limit[l].queue = Tail(q)], Head(q))

RECURSIVE EnqueueAll(_, _, _, _, _)
\* array.map((x, index) => limit(...)): tasks 1..n enter the limiter in index order
EnqueueAll(s, p, kind, i, n) ==
    IF i > n THEN s
    ELSE EnqueueAll(LimitEnqueue(s, [node |-> p, kind |-> kind, index |-> i]),
                    p, kind, i + 1, n)

\* Promise.all over promises in the given states
PromiseAll(tasks) ==
    IF \E i \in DOMAIN tasks : tasks[i] = "rejected" THEN "rejected"
    ELSE IF \A i \in DOMAIN tasks : tasks[i] = "fulfilled" THEN "fulfilled"
    ELSE "pending"

\* the value of await Promise.all(relevancePromises): by index of the promise
relevanceChecks(values) == [i \in DOMAIN values |-> values[i].val]

\* children collected in the order in which the child builds settled
CollectBySettling(p, order) == [i \in 1..Len(order) |-> Child(p, order[i])]

\* children collected without the last follow-up
CollectAllButLast(p, order) == [i \in 1..(Len(order) - 1) |-> Child(p, i)]

\* the value of await Promise.all(followUpPromises): by index of the promise
CollectChildren(p, order) == [i \in 1..Len(order) |-> Child(p, i)]

RECURSIVE Return(_, _), Throw(_, _, _), FollowUpSettled(_, _, _, _, _)

\* a child that adds itself to its parent's children when it returns
ReturnPushing(s, p) ==
    LET s1 == [s EXCEPT !.pc[p] = "returned"]
    IN IF IsRoot(p)
       THEN [s1 EXCEPT !.topResult = [status |-> "fulfilled", error |-> NoError]]
       ELSE FollowUpSettled([s1 EXCEPT !.node[Parent(p)].children = Append(@, p)],
                            Parent(p), IndexInParent(p), TRUE, NoError)

\* return node
Return(s, p) ==
    LET s1 == [s EXCEPT !.pc[p] = "returned"]
    IN IF IsRoot(p)
       THEN [s1 EXCEPT !.topResult = [status |-> "fulfilled", error |-> NoError]]
       ELSE FollowUpSettled(s1, Parent(p), IndexInParent(p), TRUE, NoError)

\* a catch block that swallows the error and returns the node as it is
ThrowSwallowed(s, p, e) == Return(s, p)

\* an awaited call rejected: the invocation rejects with the same error
Throw(s, p, e) ==
    LET s1 == [s EXCEPT !.pc[p] = "rejected", !.error[p] = e]
    IN IF IsRoot(p)
       THEN [s1 EXCEPT !.topResult = [status |-> "rejected", error |-> e]]
       ELSE FollowUpSettled(s1, Parent(p), IndexInParent(p), FALSE, e)

\* a parent that reacts to a settling child even after it has itself settled
FollowUpSettledUnguarded(s, q, i, ok, e) ==
    LET s1 == [s EXCEPT !.followUpTask[q][i] = IF ok THEN "fulfilled" ELSE "rejected",
                        !.followUpOrder[q] = Append(@, i)]
        s2 == LimitNext(s1, LimiterOf(q))
        all == PromiseAll(s2.followUpTask[q])
    IN IF all = "rejected" /\ ~ok THEN Throw(s2, q, e)
       ELSE IF all = "fulfilled"
            THEN Return([s2 EXCEPT !.node[q].children =
                                       CollectChildren(q, s2.followUpOrder[q])], q)
            ELSE s2

\* followUpPromises[i] of invocation q settles
FollowUpSettled(s, q, i, ok, e) ==
    LET s1 == [s EXCEPT !.followUpTask[q][i] = IF ok THEN "fulfilled" ELSE "rejected",
                        !.followUpOrder[q] = Append(@, i)]
        s2 == LimitNext(s1, LimiterOf(q))
        all == PromiseAll(s2.followUpTask[q])
    IN IF s2.pc[q] # "followUps" THEN s2
       ELSE IF all = "rejected" THEN Throw(s2, q, e)
       ELSE IF all = "fulfilled"
            THEN Return([s2 EXCEPT !.node[q].children =
                                       CollectChildren(q, s2.followUpOrder[q])], q)
            ELSE s2

\* insight synthesis invoked whether or not a result passed the filter
AfterRelevanceAlways(s, p) ==
    LET checks == relevanceChecks(s.relevanceValue[p])
        relevant == relevantFullResults(s.fullResults[p], checks)
        s1 == [s EXCEPT !.node[p].relevanceScores =
                            StoreScores(EmptyScores, s.node[p].searchResults, checks, 1),
                        !.node[p].relevantResults = MapLightweight(relevant)]
    IN [s1 EXCEPT !.pc[p] = "insights", !.calls[p].insights = "pending"]

\* insight synthesis and follow-up generation issued together, not one after the other
AfterRelevanceParallel(s, p) ==
    LET checks == relevanceChecks(s.relevanceValue[p])
        relevant == relevantFullResults(s.fullResults[p], checks)
        s1 == [s EXCEPT !.node[p].relevanceScores =
                            StoreScores(EmptyScores, s.node[p].searchResults, checks, 1),
                        !.node[p].relevantResults = MapLightweight(relevant)]
    IN IF Len(relevant) > 0
       THEN [s1 EXCEPT !.pc[p] = "insights", !.calls[p].insights = "pending",
                       !.calls[p].questions = "pending"]
       ELSE Return(s1, p)

\* lines 539-563 and 619-625: after await Promise.all(relevancePromises)
AfterRelevance(s, p) ==
    LET checks == relevanceChecks(s.relevanceValue[p])
        relevant == relevantFullResults(s.fullResults[p], checks)
        s1 == [s EXCEPT !.node[p].relevanceScores =
                            StoreScores(EmptyScores, s.node[p].searchResults, checks, 1),
                        !.node[p].relevantResults = MapLightweight(relevant)]
    IN IF Len(relevant) > 0
       THEN [s1 EXCEPT !.pc[p] = "insights", !.calls[p].insights = "pending"]
       ELSE Return(s1, p)

\* relevancePromises[i] of invocation p settles
RelevanceSettled(s, p, i, ok, answer, e) ==
    LET s1 == [s EXCEPT !.relevanceTask[p][i] = IF ok THEN "fulfilled" ELSE "rejected",
                        !.relevanceValue[p][i] =
                            IF ok /\ s.pc[p] = "relevance" THEN Some(answer) ELSE @]
        s2 == LimitNext(s1, LimiterOf(p))
        all == PromiseAll(s2.relevanceTask[p])
    IN IF s2.pc[p] # "relevance" THEN s2
       ELSE IF all = "rejected" THEN Throw(s2, p, e)
       ELSE IF all = "fulfilled" THEN AfterRelevance(s2, p)
       ELSE s2

\* lines 504-537: after await exa.searchAndContents
AfterSearch(s, p, results) ==
    LET n == Len(results)
        s1 == [s EXCEPT !.fullResults[p] = results,
                        !.node[p].searchResults = MapLightweight(results),
                        !.calls[p].search = "ok",
                        !.relevanceTask[p] = [i \in 1..n |-> "queued"],
                        !.relevanceValue[p] = [i \in 1..n |-> None],
                        !.requests[p].relevance = [i \in 1..n |-> 0],
                        !.pc[p] = "relevance"]
        s2 == EnqueueAll(s1, p, "relevance", 1, n)
    IN IF n = 0 THEN AfterRelevance(s2, p) ELSE s2

\* a bug that lets the deepest level branch once more
MayBranchOffByOne(cfg, currentDepth) == currentDepth < cfg.maxDepth

\* if (currentDepth < config.maxDepth - 1)
MayBranch(cfg, currentDepth) == currentDepth < cfg.maxDepth - 1

\* the count parameter left to its default (count: number = 3)
QuestionCountDefault(cfg) == 3

\* generateFollowUpQuestions(node, topic, env, config.followUpQuestionsPerNode)
QuestionCount(cfg) == cfg.followUpQuestionsPerNode

\* lines 563-578 and 614-625: after await generateInsights
AfterInsights(s, p, insights) ==
    LET s1 == [s EXCEPT !.node[p].insights = insights, !.calls[p].insights = "ok"]
    IN IF MayBranch(config, s.node[p].depth)
       THEN [s1 EXCEPT !.pc[p] = "questions", !.calls[p].questions = "pending",
                       !.requests[p].questionCount = Some(QuestionCount(config))]
       ELSE Return(s1, p)

\* lines 576-609: after await generateFollowUpQuestions
AfterQuestions(s, p, questions) ==
    LET n == Len(questions)
        s1 == [s EXCEPT !.node[p].followUpQuestions = questions,
                        !.calls[p].questions = "ok"]
        s2 == [s1 EXCEPT !.followUpTask[p] = [i \in 1..n |-> "queued"],
                         !.pc[p] = "followUps"]
    IN IF n > 0 THEN EnqueueAll(s2, p, "followUp", 1, n) ELSE Return(s1, p)

Failed(s, p, call) == [s EXCEPT !.failures = @ \cup {[node |-> p, call |-> call]}]

----------------------------------------------------------------------------
(* Initial state and actions. *)

Configs ==
    [maxDepth : 0..MaxDepthBound,
     resultsPerQuery : 0..MaxResults,
     followUpQuestionsPerNode : 0..MaxFollowUps,
     concurrencyLimit : 0..MaxConcurrency]

\* no call of performDeepResearch has been made
NoInvocations ==
    /\ pc = [p \in Paths |-> "idle"]
    /\ node = [p \in Paths |-> NewNode("", 0)]
    /\ fullResults = [p \in Paths |-> <<>>]
    /\ calls = [p \in Paths |-> NoCalls]
    /\ relevanceTask = [p \in Paths |-> <<>>]
    /\ relevanceValue = [p \in Paths |-> <<>>]
    /\ followUpTask = [p \in Paths |-> <<>>]
    /\ followUpOrder = [p \in Paths |-> <<>>]
    /\ limit = [p \in Paths |-> NewLimit]
    /\ error = [p \in Paths |-> NoError]
    /\ failures = {}
    /\ requests = [p \in Paths |-> NoRequests]
    /\ topResult = [status |-> "none", error |-> NoError]

\* summarizeResearch has not been called
NoSummary == researchTree = None /\ summary = None

\* step 5 of the workflow has not run
NoCombination ==
    /\ allSources = <<>>
    /\ uniqueSources = None
    /\ combinedInsights = <<>>
    /\ uniqueInsights = None

\* generateMarkdownReport has not been called
NoValidation ==
    /\ reportText = <<>>
    /\ maxCitationNumber = 0
    /\ validatedReport = None
    /\ revalidatedReport = None

\* toLightweightResult has not been called
NoConversion == sourceResult = None /\ lightweightResult = None

\* this.state || {...}: the state of an agent that has stored none
NullState ==
    [currentWorkflowId |-> Null, workflowStartTime |-> Null, workflowStatus |-> Null,
     researchTopic |-> Null, researchDepth |-> Null]

\* no agent exists
NoAgent ==
    /\ agentState = NullState
    /\ instances = <<>>
    /\ handler = <<>>
    /\ scheduled = EmptyBag
    /\ querying = EmptyBag
    /\ sent = <<>>
    /\ completions = <<>>
    /\ cancelCleared = FALSE

\* DeepResearchWorkflow.run has not been called
NoWorkflowRun ==
    /\ researchTrees = <<>>
    /\ summaries = None
    /\ finalAnalysis = None
    /\ finalResult = None
    /\ runStatus = "none"

Init ==
    /\ config \in Configs
    /\ NoInvocations
    /\ NoAgent
    /\ NoWorkflowRun
    /\ NoSummary
    /\ NoCombination
    /\ NoValidation
    /\ NoConversion

Becomes(s) ==
    /\ pc' = s.pc
    /\ node' = s.node
    /\ fullResults' = s.fullResults
    /\ calls' = s.calls
    /\ relevanceTask' = s.relevanceTask
    /\ relevanceValue' = s.relevanceValue
    /\ followUpTask' = s.followUpTask
    /\ followUpOrder' = s.followUpOrder
    /\ limit' = s.limit
    /\ error' = s.error
    /\ failures' = s.failures
    /\ requests' = s.requests
    /\ topResult' = s.topResult
    /\ UNCHANGED <<config, agentVars, workflowVars, summaryVars, combineVars, citationVars, lightweightVars>>

\* the caller invokes performDeepResearch(query, topic, env, config, 0)
Research ==
    /\ topResult.status = "none"
    /\ Becomes(Invoke([State EXCEPT !.topResult.status = "pending"], Root, RootQuery, 0))

SearchCompletes(p) ==
    /\ pc[p] = "search"
    /\ \E results \in SearchResponses(config.resultsPerQuery) :
           Becomes(AfterSearch(State, p, results))

\* a failed search is issued once more before the invocation gives up
SearchFailsRetry(p) ==
    /\ pc[p] = "search"
    /\ IF requests[p].search < 2
       THEN Becomes(Failed([State EXCEPT !.requests[p].search = @ + 1], p, "search"))
       ELSE Becomes(Throw(Failed([State EXCEPT !.calls[p].search = "failed"], p, "search"),
                          p, SearchError))

\* await exa.searchAndContents rejects: nothing catches it
SearchFails(p) ==
    /\ pc[p] = "search"
    /\ Becomes(Throw(Failed([State EXCEPT !.calls[p].search = "failed"], p, "search"),
                     p, SearchError))

RelevanceCompletes(p, i) ==
    /\ i \in DOMAIN relevanceTask[p]
    /\ relevanceTask[p][i] = "running"
    /\ \E answer \in RelevanceAnswers :
           Becomes(RelevanceSettled(State, p, i, TRUE, answer, NoError))

RelevanceFails(p, i) ==
    /\ i \in DOMAIN relevanceTask[p]
    /\ relevanceTask[p][i] = "running"
    /\ Becomes(RelevanceSettled(Failed(State, p, "relevance"), p, i, FALSE,
                                CHOOSE a \in RelevanceAnswers : TRUE,
                                GenerationError("relevance")))

InsightsCompletes(p) ==
    /\ pc[p] = "insights"
    /\ \E insights \in InsightAnswers : Becomes(AfterInsights(State, p, insights))

InsightsFail(p) ==
    /\ pc[p] = "insights"
    /\ Becomes(Throw(Failed([State EXCEPT !.calls[p].insights = "failed"], p, "insights"),
                     p, GenerationError("insights")))

QuestionsComplete(p) ==
    /\ pc[p] = "questions"
    /\ \E questions \in FollowUpAnswers(requests[p].questionCount.val) :
           Becomes(AfterQuestions(State, p, questions))

QuestionsFail(p) ==
    /\ pc[p] = "questions"
    /\ Becomes(Throw(Failed([State EXCEPT !.calls[p].questions = "failed"], p, "questions"),
                     p, GenerationError("questions")))

Next ==
    \/ Research
    \/ \E p \in Paths : SearchCompletes(p)
    \/ \E p \in Paths : SearchFails(p)
    \/ \E p \in Paths, i \in 1..MaxResults : RelevanceCompletes(p, i)
    \/ \E p \in Paths, i \in 1..MaxResults : RelevanceFails(p, i)
    \/ \E p \in Paths : InsightsCompletes(p)
    \/ \E p \in Paths : InsightsFail(p)
    \/ \E p \in Paths : QuestionsComplete(p)
    \/ \E p \in Paths : QuestionsFail(p)

Spec == Init /\ [][Next]_vars

----------------------------------------------------------------------------
(* summarizeResearch (research.ts): the tree it walks is a ResearchNode whose *)
(* children are ResearchNodes.                                               *)

MaxTreeNodes == 5     \* the trees handed to summarizeResearch have 1..MaxTreeNodes nodes

\* node.relevanceScores[result.url] || 0
ScoreOrZero(scores, url) == IF url \in DOMAIN scores THEN scores[url] ELSE 0

\* the SourceInfo pushed for one relevant result of a node
SourceOf(n, result) ==
    [title |-> result.title, url |-> result.url, snippet |-> result.snippet,
     query |-> n.query, relevanceScore |-> ScoreOrZero(n.relevanceScores, result.url)]

\* allInsights, allSources, totalNodes and totalRelevantResults before the walk
NoTotals ==
    [totalNodes |-> 0, totalRelevantResults |-> 0, allInsights |-> <<>>, allSources |-> <<>>]

RECURSIVE collectFromNode(_, _), collectFromChildren(_, _, _)

\* a walk that counts the search results of a node instead of its relevant results
collectFromNodeCountingSearchResults(acc, n) ==
    LET sources == [i \in 1..Len(n.relevantResults) |-> SourceOf(n, n.relevantResults[i])]
        acc1 == [acc EXCEPT !.totalNodes = @ + 1,
                            !.totalRelevantResults = @ + Len(n.searchResults),
                            !.allInsights = @ \o n.insights,
                            !.allSources = @ \o sources]
    IN collectFromChildren(acc1, n.children, 1)

\* a walk that collects from the children of a node before the node itself
collectFromNodePostOrder(acc, n) ==
    LET sources == [i \in 1..Len(n.relevantResults) |-> SourceOf(n, n.relevantResults[i])]
        acc1 == collectFromChildren(acc, n.children, 1)
    IN [acc1 EXCEPT !.totalNodes = @ + 1,
                    !.totalRelevantResults = @ + Len(n.relevantResults),
                    !.allInsights = @ \o n.insights,
                    !.allSources = @ \o sources]

\* function collectFromNode(node): the node first, then its children
collectFromNode(acc, n) ==
    LET sources == [i \in 1..Len(n.relevantResults) |-> SourceOf(n, n.relevantResults[i])]
        acc1 == [acc EXCEPT !.totalNodes = @ + 1,
                            !.totalRelevantResults = @ + Len(n.relevantResults),
                            !.allInsights = @ \o n.insights,
                            !.allSources = @ \o sources]
    IN collectFromChildren(acc1, n.children, 1)

\* node.children.forEach((child) => collectFromNode(child)), from child i on
collectFromChildren(acc, children, i) ==
    IF i > Len(children) THEN acc
    ELSE collectFromChildren(collectFromNode(acc, children[i]), children, i + 1)

summarizeResearch(topic, tree) ==
    LET acc == collectFromNode(NoTotals, tree)
    IN [originalTopic |-> topic,
        totalNodesExplored |-> acc.totalNodes,
        totalRelevantResults |-> acc.totalRelevantResults,
        allInsights |-> acc.allInsights,
        allSources |-> acc.allSources,
        researchTree |-> tree]

(* The trees summarizeResearch is given. *)

Topic == "topic"

\* what a node of a tree may hold: nothing; two results of which one was kept; three
\* results, all kept, two of them with the same url and one with a url without score
NodeKinds ==
    { [searchResults |-> <<>>, relevantResults |-> <<>>,
       relevanceScores |-> EmptyScores, insights |-> 0],
      [searchResults |-> MapLightweight(<<ResultA, ResultC>>),
       relevantResults |-> MapLightweight(<<ResultA>>),
       relevanceScores |-> [u \in {"u1", "u2"} |-> IF u = "u1" THEN 70 ELSE 69],
       insights |-> MinInsights],
      [searchResults |-> MapLightweight(<<ResultA, ResultB, ResultC>>),
       relevantResults |-> MapLightweight(<<ResultA, ResultB, ResultC>>),
       relevanceScores |-> [u \in {"u1"} |-> 100],
       insights |-> MaxInsights] }

\* the node at position path, of the given kind and with the given children; its
\* query and its insights are its own
MakeNode(path, kind, children) ==
    [query |-> "q" \o ToString(path),
     searchResults |-> kind.searchResults,
     relevantResults |-> kind.relevantResults,
     relevanceScores |-> kind.relevanceScores,
     insights |-> [k \in 1..kind.insights |-> "i" \o ToString(k) \o ToString(path)],
     followUpQuestions |-> [i \in 1..Len(children) |-> children[i].query],
     depth |-> Len(path),
     children |-> children]

RECURSIVE TreesAt(_, _), ForestsAt(_, _, _)
\* the trees of exactly n nodes rooted at position path
TreesAt(path, n) ==
    {MakeNode(path, kind, f) : kind \in NodeKinds, f \in ForestsAt(path, 1, n - 1)}
\* the sequences of trees at positions Append(path, i), Append(path, i + 1), ...
\* that have m nodes together
ForestsAt(path, i, m) ==
    IF m = 0 THEN {<<>>}
    ELSE UNION { {<<t>> \o f : t \in TreesAt(Append(path, i), k),
                               f \in ForestsAt(path, i + 1, m - k)} : k \in 1..m }

ResearchTrees == UNION {TreesAt(Root, n) : n \in 1..MaxTreeNodes}

SummaryInit ==
    /\ config = CHOOSE cfg \in Configs : cfg.maxDepth >= 1
    /\ NoInvocations
    /\ NoAgent
    /\ NoWorkflowRun
    /\ researchTree \in ResearchTrees
    /\ summary = None
    /\ NoCombination
    /\ NoValidation
    /\ NoConversion

\* const summary = summarizeResearch(topic, tree)
Summarize ==
    /\ summary = None
    /\ summary' = Some(summarizeResearch(Topic, researchTree))
    /\ UNCHANGED <<buildVars, agentVars, workflowVars, researchTree, combineVars, citationVars, lightweightVars>>

SummaryNext == Summarize

SummarySpec == SummaryInit /\ [][SummaryNext]_vars

----------------------------------------------------------------------------
(* Step 5 of the workflow (workflow.ts, "combine and analyze insights"): the *)
(* sources of all summaries are deduplicated by url and sorted by score.  A  *)
(* Map is modelled as the sequence of its values in key insertion order; the *)
(* key of a value is its url.                                                *)

MaxSources == 4       \* the concatenated allSources has at most MaxSources entries

\* sourceMap.get(url): the position of the key, 0 when the Map has no such key
KeyIndex(map, url) ==
    IF \E i \in DOMAIN map : map[i].url = url
    THEN CHOOSE i \in DOMAIN map : map[i].url = url
    ELSE 0

\* a set that moves an existing key to the end of the Map
MapSetLast(map, source) ==
    LET kept == SelectSeq(map, LAMBDA e : e.url # source.url)
    IN Append(kept, source)

\* sourceMap.set(source.url, source): a new key is appended, an existing key keeps
\* its place and gets the new value
MapSet(map, source) ==
    LET i == KeyIndex(map, source.url)
    IN IF i = 0 THEN Append(map, source) ELSE [map EXCEPT ![i] = source]

\* a later entry also replaces the kept one when their scores are equal
ReplacesOnTie(existing, source) == source.relevanceScore >= existing.relevanceScore

\* source.relevanceScore > existing.relevanceScore
Replaces(existing, source) == source.relevanceScore > existing.relevanceScore

RECURSIVE GroupByUrl(_, _, _)
\* allSources.forEach((source) => {...}), from entry i on
GroupByUrl(map, sources, i) ==
    IF i > Len(sources) THEN map
    ELSE LET source == sources[i]
             k == KeyIndex(map, source.url)
         IN GroupByUrl(IF k = 0 \/ Replaces(map[k], source)
                       THEN MapSet(map, source)
                       ELSE map,
                       sources, i + 1)

\* one step of a stable sort with (a, b) => b.relevanceScore - a.relevanceScore: x goes
\* behind every entry that does not have a lower score
InsertByScore(sorted, x) ==
    LET k == Cardinality({i \in DOMAIN sorted :
                             sorted[i].relevanceScore >= x.relevanceScore})
    IN SubSeq(sorted, 1, k) \o <<x>> \o SubSeq(sorted, k + 1, Len(sorted))

RECURSIVE SortByScore(_, _, _)
\* Array.from(sourceMap.values()).sort(...): Array.prototype.sort is stable
SortByScore(sorted, values, i) ==
    IF i > Len(values) THEN sorted
    ELSE SortByScore(InsertByScore(sorted, values[i]), values, i + 1)

\* lines 207-219: const uniqueSources = ...
DeduplicateSources(sources) == SortByScore(<<>>, GroupByUrl(<<>>, sources, 1), 1)

\* a Set whose add moves a value it already holds to the end
SetAddLast(set, x) == Append(SelectSeq(set, LAMBDA e : e # x), x)

\* Set.prototype.add: a Set is the sequence of its values in insertion order, and
\* adding a value it already holds changes nothing
SetAdd(set, x) ==
    IF \E i \in DOMAIN set : set[i] = x THEN set ELSE Append(set, x)

RECURSIVE NewSet(_, _, _)
\* new Set(values): the values are added in array order, from entry i on
NewSet(set, values, i) ==
    IF i > Len(values) THEN set
    ELSE NewSet(SetAdd(set, values[i]), values, i + 1)

\* line 204: const uniqueInsights = [...new Set(combinedInsights)]
DeduplicateInsights(insights) == NewSet(<<>>, insights, 1)

(* The source lists and insight lists step 5 is given. *)

MaxCombinedInsights == 3   \* combinedInsights has at most MaxCombinedInsights entries

InsightStrings == {"A", "B"}

InsightLists == UNION {[1..n -> InsightStrings] : n \in 0..MaxCombinedInsights}


SourceUrls == {"u1", "u2"}
SourceScores == {0, 70, 90}

\* entry i of a source list: the title tells the entries of one url apart
SourceAt(i, url, score) ==
    [title |-> "t" \o ToString(i), url |-> url, snippet |-> "", query |-> "q",
     relevanceScore |-> score]

SourceLists ==
    UNION { {[i \in 1..n |-> SourceAt(i, f[i][1], f[i][2])] :
                 f \in [1..n -> SourceUrls \X SourceScores]} : n \in 0..MaxSources }

CombineInit ==
    /\ config = CHOOSE cfg \in Configs : cfg.maxDepth >= 1
    /\ NoInvocations
    /\ NoAgent
    /\ NoWorkflowRun
    /\ NoSummary
    /\ allSources \in SourceLists
    /\ uniqueSources = None
    /\ combinedInsights \in InsightLists
    /\ uniqueInsights = None
    /\ NoValidation
    /\ NoConversion

\* step.do("combine and analyze insights", ...)
CombineAndAnalyze ==
    /\ uniqueSources = None
    /\ uniqueSources' = Some(DeduplicateSources(allSources))
    /\ uniqueInsights' = Some(DeduplicateInsights(combinedInsights))
    /\ UNCHANGED <<buildVars, agentVars, workflowVars, summaryVars, allSources, combinedInsights, citationVars,
                   lightweightVars>>

CombineNext == CombineAndAnalyze

CombineSpec == CombineInit /\ [][CombineNext]_vars

----------------------------------------------------------------------------
(* The citation pass of generateMarkdownReport (report.ts): a text is the    *)
(* sequence of its characters.                                               *)

MaxReportLength == 5      \* the report texts enumerated have at most MaxReportLength characters
MaxCitationBound == 3     \* data.sources.length ranges over 0..MaxCitationBound

Digits == <<"0", "1", "2", "3", "4", "5", "6", "7", "8", "9">>
IsDigit(c) == \E d \in DOMAIN Digits : Digits[d] = c
DigitValue(c) == (CHOOSE d \in DOMAIN Digits : Digits[d] = c) - 1

RECURSIVE parseInt(_)
\* parseInt(number, 10) on a run of digits
parseInt(number) ==
    IF number = <<>> THEN 0
    ELSE parseInt(SubSeq(number, 1, Len(number) - 1)) * 10
             + DigitValue(number[Len(number)])

RECURSIVE NumberToString(_)
\* the decimal digits of a non-negative integer, as a template literal prints it
NumberToString(n) ==
    IF n < 10 THEN <<Digits[n + 1]>>
    ELSE NumberToString(n \div 10) \o <<Digits[(n % 10) + 1]>>

\* Math.abs
Abs(n) == IF n < 0 THEN 0 - n ELSE n

\* a % b of JavaScript for b # 0: the remainder has the sign of the dividend
JsRemainder(a, b) == IF a >= 0 THEN a % b ELSE 0 - ((0 - a) % b)

\* a replacement that wraps around once instead of cycling: validNum = |n - max|
ReplacementWrappingOnce(citationNum, max) ==
    IF max = 0 THEN <<"[", "N", "a", "N", "]">>
    ELSE <<"[">> \o NumberToString(Abs(Abs(citationNum) - max)) \o <<"]">>

\* `[${validNum}]` with validNum = ((Math.abs(citationNum) - 1) % maxCitationNumber) + 1;
\* x % 0 is NaN, NaN + 1 is NaN, and NaN prints as NaN
Replacement(citationNum, max) ==
    IF max = 0 THEN <<"[", "N", "a", "N", "]">>
    ELSE <<"[">> \o NumberToString(JsRemainder(Abs(citationNum) - 1, max) + 1) \o <<"]">>

\* /\[(\d+)\]/ tried at position i: the position of the closing bracket of the match,
\* 0 when there is no match
MatchEnd(text, i) ==
    IF text[i] # "["
    THEN 0
    ELSE LET after == {j \in (i + 1)..Len(text) : ~IsDigit(text[j])}
             j == IF after = {} THEN 0 ELSE CHOOSE k \in after : \A l \in after : k <= l
         IN IF j > i + 1 /\ text[j] = "]" THEN j ELSE 0

RECURSIVE ReplaceCitations(_, _, _)
\* validatedReport.replace(citationRegex, (match, number) => {...}), from position i on
ReplaceCitations(text, i, max) ==
    IF i > Len(text) THEN <<>>
    ELSE LET j == MatchEnd(text, i)
         IN IF j = 0
            THEN <<text[i]>> \o ReplaceCitations(text, i + 1, max)
            ELSE LET citationNum == parseInt(SubSeq(text, i + 1, j - 1))
                 IN (IF citationNum > max \/ citationNum < 1
                     THEN Replacement(citationNum, max)
                     ELSE SubSeq(text, i, j))
                    \o ReplaceCitations(text, j + 1, max)

\* lines 107-134
validateCitations(text, max) == ReplaceCitations(text, 1, max)

(* The report texts the citation pass is given. *)

ReportChars == {"[", "]", "0", "1", "7", "a"}

\* "see [1] and [7]" and "[1][2][3]"
ExampleTexts ==
    { <<"s", "e", "e", " ", "[", "1", "]", " ", "a", "n", "d", " ", "[", "7", "]">>,
      <<"[", "1", "]", "[", "2", "]", "[", "3", "]">> }

ReportTexts ==
    ExampleTexts \cup UNION {[1..n -> ReportChars] : n \in 0..MaxReportLength}

CitationInit ==
    /\ config = CHOOSE cfg \in Configs : cfg.maxDepth >= 1
    /\ NoInvocations
    /\ NoAgent
    /\ NoWorkflowRun
    /\ NoSummary
    /\ NoCombination
    /\ NoConversion
    /\ reportText \in ReportTexts
    /\ maxCitationNumber \in 0..MaxCitationBound
    /\ validatedReport = None
    /\ revalidatedReport = None

\* validatedReport = validatedReport.replace(citationRegex, ...)
ValidateCitations ==
    /\ validatedReport = None
    /\ validatedReport' = Some(validateCitations(reportText, maxCitationNumber))
    /\ UNCHANGED <<buildVars, agentVars, workflowVars, summaryVars, combineVars, lightweightVars, reportText,
                   maxCitationNumber, revalidatedReport>>

\* the same pass applied to the text it produced
RevalidateCitations ==
    /\ validatedReport # None
    /\ revalidatedReport = None
    /\ revalidatedReport' = Some(validateCitations(validatedReport.val, maxCitationNumber))
    /\ UNCHANGED <<buildVars, agentVars, workflowVars, summaryVars, combineVars, lightweightVars, reportText,
                   maxCitationNumber, validatedReport>>

CitationNext == ValidateCitations \/ RevalidateCitations

CitationSpec == CitationInit /\ [][CitationNext]_vars

----------------------------------------------------------------------------
(* toLightweightResult (research.ts) on the results a search provider may    *)
(* return.                                                                   *)

MaxSourceText == 500      \* result.text has at most MaxSourceText characters

RECURSIVE Fill(_, _)
\* the string s repeated until it has at least n characters
Fill(s, n) == IF Len(s) >= n THEN s ELSE Fill(s \o s, n)

\* a text of n characters in which neighbouring characters differ
TextOf(n) == SubSeq(Fill("1234567890", n), 1, n)

SourceTitles == {None, Null, Some(""), Some("Long Article")}
SourceTexts == {None, Null} \cup {Some(TextOf(n)) : n \in 0..MaxSourceText}
SourceProviderScores == {None, Some(0), Some(1)}

\* SearchResult<any>: the fields toLightweightResult reads and some it does not
SearchResults ==
    [title : SourceTitles, url : {"u1"}, text : SourceTexts,
     score : SourceProviderScores, id : {"test-id"}, author : {None, Some("Test Author")}]

LightweightInit ==
    /\ config = CHOOSE cfg \in Configs : cfg.maxDepth >= 1
    /\ NoInvocations
    /\ NoAgent
    /\ NoWorkflowRun
    /\ NoSummary
    /\ NoCombination
    /\ NoValidation
    /\ sourceResult \in SearchResults
    /\ lightweightResult = None

\* const result = toLightweightResult(mockResult)
Convert ==
    /\ lightweightResult = None
    /\ lightweightResult' = Some(toLightweightResult(sourceResult))
    /\ UNCHANGED <<buildVars, agentVars, workflowVars, summaryVars, combineVars, citationVars, sourceResult>>

LightweightNext == Convert

LightweightSpec == LightweightInit /\ [][LightweightNext]_vars

----------------------------------------------------------------------------
(* DeepResearchWorkflow.run (workflow.ts) from step 4 on: the summaries of   *)
(* the research trees, their combination in step 5, and the final result.    *)
(* Steps 6 and 7 call the report generator, which may throw; the texts they  *)
(* return are not modelled.                                                  *)

InitialQueries == 3        \* z.array(z.string()).length(3): one tree per query
MaxWorkflowTreeNodes == 2  \* each tree of a run has 1..MaxWorkflowTreeNodes nodes

RECURSIVE FlatMap(_, _, _)
\* summaries.flatMap((s) => s[field]), from summary i on
FlatMap(list, field, i) ==
    IF i > Len(list) THEN <<>> ELSE list[i][field] \o FlatMap(list, field, i + 1)

RECURSIVE ReduceLast(_, _, _, _)
\* a reduce whose callback drops the accumulator: (sum, s) => s[field]
ReduceLast(list, field, sum, i) ==
    IF i > Len(list) THEN sum ELSE ReduceLast(list, field, list[i][field], i + 1)

RECURSIVE Reduce(_, _, _, _)
\* summaries.reduce((sum, s) => sum + s[field], 0), from summary i on
Reduce(list, field, sum, i) ==
    IF i > Len(list) THEN sum ELSE Reduce(list, field, sum + list[i][field], i + 1)

\* what step.do("combine and analyze insights", ...) returns
Combine(list) ==
    LET combined == FlatMap(list, "allInsights", 1)
        all == FlatMap(list, "allSources", 1)
        totalNodes == Reduce(list, "totalNodesExplored", 0, 1)
        totalRelevantResults == Reduce(list, "totalRelevantResults", 0, 1)
        unique == DeduplicateInsights(combined)
        deduplicated == DeduplicateSources(all)
    IN [combinedInsights |-> unique,
        totalInsights |-> Len(combined),
        uniqueInsights |-> Len(unique),
        totalNodesExplored |-> totalNodes,
        totalRelevantResults |-> totalRelevantResults,
        sources |-> deduplicated,
        totalSources |-> Len(all),
        uniqueSources |-> Len(deduplicated)]

\* WorkflowOutputSchema.safeParse keeps the four declared fields of a source
ParsedSource(source) ==
    [title |-> source.title, url |-> source.url, snippet |-> source.snippet,
     relevanceScore |-> source.relevanceScore]

\* const finalResult: WorkflowOutput = {...}, as returned by safeParse
FinalResultOf(analysis) ==
    [combinedInsights |-> analysis.combinedInsights,
     uniqueInsights |-> analysis.uniqueInsights,
     totalNodesExplored |-> analysis.totalNodesExplored,
     totalRelevantResults |-> analysis.totalRelevantResults,
     sources |-> [i \in DOMAIN analysis.sources |-> ParsedSource(analysis.sources[i])],
     uniqueSources |-> analysis.uniqueSources,
     reportMetadata |-> [citationCount |-> Len(analysis.sources)]]

\* the trees step 3 may return for one query
WorkflowTrees == UNION {TreesAt(Root, n) : n \in 1..MaxWorkflowTreeNodes}

WorkflowInit ==
    /\ config = CHOOSE cfg \in Configs : cfg.maxDepth >= 1
    /\ NoInvocations
    /\ NoAgent
    /\ NoSummary
    /\ NoCombination
    /\ NoValidation
    /\ NoConversion
    /\ researchTrees \in [1..InitialQueries -> WorkflowTrees]
    /\ summaries = None
    /\ finalAnalysis = None
    /\ finalResult = None
    /\ runStatus = "running"

\* step.do("summarize research results", ...)
SummarizeResults ==
    /\ runStatus = "running"
    /\ summaries = None
    /\ summaries' = Some([i \in DOMAIN researchTrees |->
                              summarizeResearch(Topic, researchTrees[i])])
    /\ UNCHANGED <<buildVars, agentVars, summaryVars, combineVars, citationVars, lightweightVars,
                   researchTrees, finalAnalysis, finalResult, runStatus>>

\* step.do("combine and analyze insights", ...)
CombineInsights ==
    /\ runStatus = "running"
    /\ summaries # None
    /\ finalAnalysis = None
    /\ finalAnalysis' = Some(Combine(summaries.val))
    /\ UNCHANGED <<buildVars, agentVars, summaryVars, combineVars, citationVars, lightweightVars,
                   researchTrees, summaries, finalResult, runStatus>>

\* steps 6 and 7 return, and the final result passes the schema
ConstructFinalResult ==
    /\ runStatus = "running"
    /\ finalAnalysis # None
    /\ finalResult' = Some(FinalResultOf(finalAnalysis.val))
    /\ runStatus' = "complete"
    /\ UNCHANGED <<buildVars, agentVars, summaryVars, combineVars, citationVars, lightweightVars,
                   researchTrees, summaries, finalAnalysis>>

\* step 6 or step 7 throws: the run ends without a result
ReportGenerationFails ==
    /\ runStatus = "running"
    /\ finalAnalysis # None
    /\ runStatus' = "errored"
    /\ UNCHANGED <<buildVars, agentVars, summaryVars, combineVars, citationVars, lightweightVars,
                   researchTrees, summaries, finalAnalysis, finalResult>>

WorkflowNext ==
    \/ SummarizeResults
    \/ CombineInsights
    \/ ConstructFinalResult
    \/ ReportGenerationFails

WorkflowSpec == WorkflowInit /\ [][WorkflowNext]_vars

----------------------------------------------------------------------------
(* ResearcherAgent (openai.ts): one agent with its connections, the workflow *)
(* instances behind its workflow binding, and the checkWorkflowStatus tasks  *)
(* it schedules.  A handler runs without interruption up to an await on the  *)
(* workflow binding (create, get and status, get and terminate); the call    *)
(* takes effect and its outcome is read when it returns, and other handlers  *)
(* run in between.  this.schedule stores its task when it is called, and no  *)
(* statement of a handler follows it.  lastActivity and the state of a       *)
(* connection are written but never read, and are left out.                  *)

MaxWorkflows == 2      \* at most MaxWorkflows workflow instances are created
MaxConnections == 2    \* connections 1..MaxConnections; each may connect again
MaxChecks == 2         \* at most MaxChecks checkWorkflowStatus tasks exist at a time
DefaultDepth == 2      \* data.depth || 2

Connections == 1..MaxConnections
\* the id of the n-th workflow instance the binding creates
WorkflowId(n) == "w" \o ToString(n)
WorkflowIds == {WorkflowId(n) : n \in 1..MaxWorkflows}

\* x || y
OrElse(x, y) == IF x.some THEN x.val ELSE y
\* x || undefined
OrUndefined(x) == IF x.some THEN x ELSE None

\* the state clearWorkflowState writes, given the state it reads
clearWorkflowState(currentState) ==
    [currentState EXCEPT !.currentWorkflowId = Null, !.workflowStartTime = Null,
                         !.workflowStatus = Null, !.researchTopic = Null,
                         !.researchDepth = Null]

\* { ...currentState, workflowStatus: status }
WithStatus(currentState, status) ==
    [currentState EXCEPT !.workflowStatus = Some(status)]

(* Messages to the clients. *)

Error(message) == [type |-> "error", message |-> message]
Pong == [type |-> "pong"]
Ready == [type |-> "connected", status |-> "ready"]
Connected(status, currentState) ==
    [type |-> "connected", status |-> status,
     researchTopic |-> OrUndefined(currentState.researchTopic),
     researchDepth |-> OrUndefined(currentState.researchDepth)]
ResearchStarted(topic, workflowId, startTime, depth) ==
    [type |-> "research_started", topic |-> topic, status |-> "processing",
     workflowId |-> workflowId, startTime |-> startTime, researchDepth |-> depth]
ResearchCompleted(output, workflowId) ==
    [type |-> "research_completed", topic |-> output.originalTopic,
     report |-> output.report, status |-> "completed",
     metadata |-> [workflowId |-> workflowId]]
ResearchFailed(topic, reason) ==
    [type |-> "research_completed", topic |-> topic, status |-> "error",
     error |-> reason]

\* sendMessage(connection, message); broadcastMessage(message): a message and the
\* connections it goes to
SendTo(c, message) == [to |-> {c}, message |-> message]
BroadcastOf(message) == [to |-> Connections, message |-> message]

(* The workflow binding. *)

NoInstance == [status |-> "none", params |-> None, error |-> None]
NewInstance(data) ==
    [status |-> "running",
     params |-> Some([searchTopic |-> data.topic,
                      researchDepth |-> OrElse(data.depth, DefaultDepth)]),
     error |-> None]
\* status.output of a complete instance
OutputOf(instance) ==
    [originalTopic |-> instance.params.val.searchTopic,
     report |-> "report on " \o instance.params.val.searchTopic]
Created == {w \in WorkflowIds : instances[w].status # "none"}
NextWorkflowId == WorkflowId(Cardinality(Created) + 1)

\* the research_request messages clients send: a topic, and no depth
ResearchRequests == {[topic |-> "a", depth |-> None]}

(* Handlers. *)

Idle == [kind |-> "idle"]
\* the data of a task; its connectionId is passed on and never read
Task(workflowId, topic) == [workflowId |-> workflowId, topic |-> topic]
One(x) == SetToBag({x})
Checks == BagCardinality(scheduled) + BagCardinality(querying)
Suspended(kind) == {c \in Connections : handler[c].kind = kind}

nonAgentVars ==
    <<buildVars, summaryVars, combineVars, citationVars, lightweightVars, workflowVars>>

AgentInit ==
    /\ config = CHOOSE cfg \in Configs : cfg.maxDepth >= 1
    /\ NoInvocations
    /\ NoWorkflowRun
    /\ NoSummary
    /\ NoCombination
    /\ NoValidation
    /\ NoConversion
    /\ agentState = NullState
    /\ instances = [w \in WorkflowIds |-> NoInstance]
    /\ handler = [c \in Connections |-> Idle]
    /\ scheduled = EmptyBag
    /\ querying = EmptyBag
    /\ sent = <<>>
    /\ completions = [w \in WorkflowIds |-> 0]
    /\ cancelCleared = FALSE

\* onConnect and reportCurrentWorkflowStatus up to the status query
OnConnect(c) ==
    /\ handler[c] = Idle
    /\ IF ~agentState.currentWorkflowId.some
       THEN /\ sent' = <<SendTo(c, Ready)>>
            /\ handler' = handler
       ELSE /\ sent' = <<>>
            /\ handler' = [handler EXCEPT ![c] =
                               [kind |-> "connect", currentState |-> agentState]]
    /\ UNCHANGED <<agentState, instances, scheduled, querying, completions, cancelCleared>>
    /\ UNCHANGED nonAgentVars

\* reportCurrentWorkflowStatus after the status query has returned
StatusReported(c) ==
    /\ handler[c].kind = "connect"
    /\ LET currentState == handler[c].currentState
           id == currentState.currentWorkflowId.val
           status == instances[id]
       IN CASE status.status = "running" ->
                 /\ Checks < MaxChecks
                 /\ agentState' = WithStatus(currentState, "running")
                 /\ sent' = <<SendTo(c, ResearchStarted(
                                  OrElse(currentState.researchTopic,
                                         "Resuming active research..."),
                                  id, OrUndefined(currentState.workflowStartTime),
                                  OrUndefined(currentState.researchDepth)))>>
                 /\ scheduled' = scheduled (+)
                        One(Task(id, OrElse(currentState.researchTopic,
                                            "Active research")))
            [] status.status = "complete" ->
                 /\ agentState' = WithStatus(currentState, "completed")
                 /\ sent' = <<SendTo(c, Connected("completed", currentState)),
                              SendTo(c, ResearchCompleted(OutputOf(status), id))>>
                 /\ scheduled' = scheduled
            [] OTHER ->
                 /\ agentState' = WithStatus(currentState, "failed")
                 /\ sent' = <<SendTo(c, Connected("failed", currentState)),
                              SendTo(c, ResearchFailed(
                                  OrElse(currentState.researchTopic, "Failed research"),
                                  OrElse(status.error, "Workflow " \o status.status)))>>
                 /\ scheduled' = scheduled
    /\ handler' = [handler EXCEPT ![c] = Idle]
    /\ UNCHANGED <<instances, querying, completions, cancelCleared>>
    /\ UNCHANGED nonAgentVars

\* reportCurrentWorkflowStatus when get or status throws
StatusReportFails(c) ==
    /\ handler[c].kind = "connect"
    /\ agentState' = clearWorkflowState(agentState)
    /\ sent' = <<SendTo(c, Ready)>>
    /\ handler' = [handler EXCEPT ![c] = Idle]
    /\ UNCHANGED <<instances, scheduled, querying, completions, cancelCleared>>
    /\ UNCHANGED nonAgentVars

\* onMessage with a ping
Ping(c) ==
    /\ handler[c] = Idle
    /\ sent' = <<SendTo(c, Pong)>>
    /\ UNCHANGED <<agentState, instances, handler, scheduled, querying, completions, cancelCleared>>
    /\ UNCHANGED nonAgentVars

\* a handler that starts a second workflow while one is stored as running
handleResearchRequestUnchecked(c, data) ==
    /\ handler[c] = Idle
    /\ Cardinality(Created) + Cardinality(Suspended("request")) < MaxWorkflows
    /\ agentState' = clearWorkflowState(agentState)
    /\ sent' = <<>>
    /\ handler' = [handler EXCEPT ![c] = [kind |-> "request", data |-> data]]
    /\ UNCHANGED <<instances, scheduled, querying, completions, cancelCleared>>
    /\ UNCHANGED nonAgentVars

\* handleResearchRequest up to the create call
handleResearchRequest(c, data) ==
    /\ handler[c] = Idle
    /\ IF agentState.currentWorkflowId.some /\ agentState.workflowStatus = Some("running")
       THEN /\ sent' = <<SendTo(c, Error("Research already in progress"))>>
            /\ UNCHANGED <<agentState, handler>>
       ELSE /\ Cardinality(Created) + Cardinality(Suspended("request")) < MaxWorkflows
            /\ agentState' = IF agentState.currentWorkflowId.some
                             THEN clearWorkflowState(agentState)
                             ELSE agentState
            /\ sent' = <<>>
            /\ handler' = [handler EXCEPT ![c] = [kind |-> "request", data |-> data]]
    /\ UNCHANGED <<instances, scheduled, querying, completions, cancelCleared>>
    /\ UNCHANGED nonAgentVars

\* handleResearchRequest after create has returned the new instance
WorkflowCreated(c) ==
    /\ handler[c].kind = "request"
    /\ Checks < MaxChecks
    /\ LET data == handler[c].data
           id == NextWorkflowId
           workflowStartTime == Cardinality(Created) + 1
       IN /\ instances' = [instances EXCEPT ![id] = NewInstance(data)]
          /\ agentState' = [currentWorkflowId |-> Some(id),
                            workflowStartTime |-> Some(workflowStartTime),
                            workflowStatus |-> Some("running"),
                            researchTopic |-> Some(data.topic),
                            researchDepth |-> Some(OrElse(data.depth, DefaultDepth))]
          /\ sent' = <<SendTo(c, ResearchStarted(data.topic, id, Some(workflowStartTime),
                                                 Some(OrElse(data.depth, DefaultDepth))))>>
          /\ scheduled' = scheduled (+) One(Task(id, data.topic))
    /\ handler' = [handler EXCEPT ![c] = Idle]
    /\ cancelCleared' = FALSE
    /\ UNCHANGED <<querying, completions>>
    /\ UNCHANGED nonAgentVars

\* handleResearchRequest when create throws
WorkflowCreateFails(c) ==
    /\ handler[c].kind = "request"
    /\ agentState' = clearWorkflowState(agentState)
    /\ sent' = <<SendTo(c, ResearchFailed(handler[c].data.topic,
                                          "Failed to start research workflow"))>>
    /\ handler' = [handler EXCEPT ![c] = Idle]
    /\ UNCHANGED <<instances, scheduled, querying, completions, cancelCleared>>
    /\ UNCHANGED nonAgentVars

\* a handler that terminates whatever workflow it is asked to
handleCancelRequestUnchecked(c, workflowId) ==
    /\ handler[c] = Idle
    /\ instances[workflowId].status # "none"
    /\ sent' = <<>>
    /\ handler' = [handler EXCEPT ![c] = [kind |-> "cancel", workflowId |-> workflowId]]
    /\ UNCHANGED <<agentState, instances, scheduled, querying, completions, cancelCleared>>
    /\ UNCHANGED nonAgentVars

\* handleCancelRequest up to the terminate call
handleCancelRequest(c, workflowId) ==
    /\ handler[c] = Idle
    /\ IF agentState.currentWorkflowId # Some(workflowId)
       THEN /\ sent' = <<SendTo(c, Error("not the current active workflow"))>>
            /\ handler' = handler
       ELSE IF agentState.workflowStatus # Some("running")
       THEN /\ sent' = <<SendTo(c, Error("workflow is not currently running"))>>
            /\ handler' = handler
       ELSE /\ sent' = <<>>
            /\ handler' = [handler EXCEPT ![c] =
                               [kind |-> "cancel", workflowId |-> workflowId]]
    /\ UNCHANGED <<agentState, instances, scheduled, querying, completions, cancelCleared>>
    /\ UNCHANGED nonAgentVars

\* handleCancelRequest after terminate has returned
WorkflowTerminated(c) ==
    /\ handler[c].kind = "cancel"
    /\ LET id == handler[c].workflowId
       IN instances' = [instances EXCEPT ![id].status =
                            IF @ = "running" THEN "terminated" ELSE @]
    /\ agentState' = clearWorkflowState(agentState)
    /\ sent' = <<SendTo(c, ResearchFailed("cancelled", "Research cancelled by user"))>>
    /\ handler' = [handler EXCEPT ![c] = Idle]
    /\ cancelCleared' = TRUE
    /\ UNCHANGED <<scheduled, querying, completions>>
    /\ UNCHANGED nonAgentVars

\* handleCancelRequest when get or terminate throws
TerminateFails(c) ==
    /\ handler[c].kind = "cancel"
    /\ sent' = <<SendTo(c, Error("Failed to cancel research"))>>
    /\ handler' = [handler EXCEPT ![c] = Idle]
    /\ UNCHANGED <<agentState, instances, scheduled, querying, completions, cancelCleared>>
    /\ UNCHANGED nonAgentVars

\* a task that goes on whatever the current workflow is
checkWorkflowStatusAlways(data) ==
    /\ BagIn(data, scheduled)
    /\ sent' = <<>>
    /\ scheduled' = scheduled (-) One(data)
    /\ querying' = querying (+) One([data |-> data, currentState |-> agentState])
    /\ UNCHANGED <<agentState, instances, handler, completions, cancelCleared>>
    /\ UNCHANGED nonAgentVars

\* checkWorkflowStatus up to the status query
checkWorkflowStatus(data) ==
    /\ BagIn(data, scheduled)
    /\ sent' = <<>>
    /\ scheduled' = scheduled (-) One(data)
    /\ querying' = IF agentState.currentWorkflowId # Some(data.workflowId)
                   THEN querying
                   ELSE querying (+) One([data |-> data, currentState |-> agentState])
    /\ UNCHANGED <<agentState, instances, handler, completions, cancelCleared>>
    /\ UNCHANGED nonAgentVars

\* checkWorkflowStatus after the status query has returned
StatusChecked(task) ==
    /\ BagIn(task, querying)
    /\ querying' = querying (-) One(task)
    /\ LET currentState == task.currentState
           id == task.data.workflowId
           status == instances[id]
       IN CASE status.status = "complete" ->
                 /\ agentState' = WithStatus(currentState, "completed")
                 /\ sent' = <<BroadcastOf(ResearchCompleted(
                                  OutputOf(status),
                                  OrElse(currentState.currentWorkflowId, "")))>>
                 /\ completions' = [completions EXCEPT ![id] = @ + 1]
                 /\ scheduled' = scheduled
            [] status.status \in {"errored", "terminated"} ->
                 /\ agentState' = WithStatus(currentState, "failed")
                 /\ sent' = <<BroadcastOf(ResearchFailed(
                                  task.data.topic,
                                  OrElse(status.error, "Workflow failed")))>>
                 /\ completions' = [completions EXCEPT ![id] = @ + 1]
                 /\ scheduled' = scheduled
            [] OTHER ->
                 /\ scheduled' = scheduled (+) One(task.data)
                 /\ sent' = <<>>
                 /\ UNCHANGED <<agentState, completions>>
    /\ UNCHANGED <<instances, handler, cancelCleared>>
    /\ UNCHANGED nonAgentVars

\* checkWorkflowStatus when get or status throws
StatusCheckFails(task) ==
    /\ BagIn(task, querying)
    /\ querying' = querying (-) One(task)
    /\ agentState' = clearWorkflowState(agentState)
    /\ sent' = <<>>
    /\ UNCHANGED <<instances, handler, scheduled, completions, cancelCleared>>
    /\ UNCHANGED nonAgentVars

\* the run of a workflow instance returns its output, or throws
WorkflowEnds(workflowId, status) ==
    /\ instances[workflowId].status = "running"
    /\ instances' = [instances EXCEPT
                         ![workflowId].status = status,
                         ![workflowId].error =
                             IF status = "errored" THEN Some("run failed") ELSE None]
    /\ sent' = <<>>
    /\ UNCHANGED <<agentState, handler, scheduled, querying, completions, cancelCleared>>
    /\ UNCHANGED nonAgentVars

AgentNext ==
    \/ \E c \in Connections : OnConnect(c)
    \/ \E c \in Connections : StatusReported(c)
    \/ \E c \in Connections : StatusReportFails(c)
    \/ \E c \in Connections : Ping(c)
    \/ \E c \in Connections, data \in ResearchRequests : handleResearchRequest(c, data)
    \/ \E c \in Connections : WorkflowCreated(c)
    \/ \E c \in Connections : WorkflowCreateFails(c)
    \/ \E c \in Connections, workflowId \in WorkflowIds : handleCancelRequest(c, workflowId)
    \/ \E c \in Connections : WorkflowTerminated(c)
    \/ \E c \in Connections : TerminateFails(c)
    \/ \E data \in BagToSet(scheduled) : checkWorkflowStatus(data)
    \/ \E task \in BagToSet(querying) : StatusChecked(task)
    \/ \E task \in BagToSet(querying) : StatusCheckFails(task)
    \/ \E workflowId \in WorkflowIds, status \in {"complete", "errored"} :
           WorkflowEnds(workflowId, status)

AgentSpec == AgentInit /\ [][AgentNext]_vars

(* Monitoring alone: requests and the checks they schedule, without further  *)
(* connections and cancels.  The framework runs every scheduled task, every  *)
(* call on the workflow binding returns or throws, and every workflow run    *)
(* ends.                                                                     *)

MonitoringNext ==
    \/ \E c \in Connections, data \in ResearchRequests : handleResearchRequest(c, data)
    \/ \E c \in Connections : WorkflowCreated(c)
    \/ \E c \in Connections : WorkflowCreateFails(c)
    \/ \E data \in BagToSet(scheduled) : checkWorkflowStatus(data)
    \/ \E task \in BagToSet(querying) : StatusChecked(task)
    \/ \E task \in BagToSet(querying) : StatusCheckFails(task)
    \/ \E workflowId \in WorkflowIds, status \in {"complete", "errored"} :
           WorkflowEnds(workflowId, status)

MonitoringSpec ==
    /\ AgentInit
    /\ [][MonitoringNext]_vars
    /\ WF_vars(\E c \in Connections : WorkflowCreated(c) \/ WorkflowCreateFails(c))
    /\ WF_vars(\E data \in BagToSet(scheduled) : checkWorkflowStatus(data))
    /\ WF_vars(\E task \in BagToSet(querying) : StatusChecked(task) \/ StatusCheckFails(task))
    /\ WF_vars(\E workflowId \in WorkflowIds, status \in {"complete", "errored"} :
                   WorkflowEnds(workflowId, status))

----------------------------------------------------------------------------
(* Derived notions used by the properties. *)

Settled == {"fulfilled", "rejected"}
Invoked(p) == pc[p] # "idle"
Returned(p) == pc[p] = "returned"

RelevanceInFlight == {<<p, i>> \in Paths \X (1..MaxResults) :
                        i \in DOMAIN relevanceTask[p] /\ relevanceTask[p][i] = "running"}
FollowUpInFlight == {<<p, i>> \in Paths \X (1..MaxFollowUps) :
                        i \in DOMAIN followUpTask[p] /\ followUpTask[p][i] = "running"}
RelevanceQueued == {<<p, i>> \in Paths \X (1..MaxResults) :
                        i \in DOMAIN relevanceTask[p] /\ relevanceTask[p][i] = "queued"}
FollowUpQueued == {<<p, i>> \in Paths \X (1..MaxFollowUps) :
                        i \in DOMAIN followUpTask[p] /\ followUpTask[p][i] = "queued"}

\* relevance checks plus child builds in flight, over the whole tree
InFlight == Cardinality(RelevanceInFlight) + Cardinality(FollowUpInFlight)

----------------------------------------------------------------------------
(* Properties of the research tree builder. *)

Unsettled == {"search", "relevance", "insights", "questions", "followUps"}
RelevanceStarted(p) == \E i \in DOMAIN relevanceTask[p] : relevanceTask[p][i] # "queued"
FollowUpStarted(p) == \E i \in DOMAIN followUpTask[p] : followUpTask[p][i] # "queued"
CheckOf(p, i) == relevanceValue[p][i].val
Passes(p, i) == CheckOf(p, i).isRelevant /\ CheckOf(p, i).relevanceScore >= 70
PassingIndexes(p) == {i \in DOMAIN relevanceValue[p] : Passes(p, i)}
\* the j-th smallest element of a set of numbers
Nth(S, j) == CHOOSE i \in S : Cardinality({k \in S : k < i}) = j - 1

\* a configuration as the data model admits it
ValidConfig ==
    /\ config.maxDepth >= 1
    /\ config.resultsPerQuery >= 1
    /\ config.concurrencyLimit >= 1

\* C1: at every instant the relevance checks plus child builds in flight, counted
\* over all nodes of the tree, are at most config.concurrencyLimit.
C1_TreeWideBound == ValidConfig => InFlight <= config.concurrencyLimit

\* what has happened so far: the top-level call and every completed external call
Steps ==
    (IF topResult.status = "none" THEN 0 ELSE 1)
    + Cardinality({p \in Paths : calls[p].search \in {"ok", "failed"}})
    + Cardinality({p \in Paths : calls[p].insights \in {"ok", "failed"}})
    + Cardinality({p \in Paths : calls[p].questions \in {"ok", "failed"}})
    + Cardinality({x \in Paths \X (1..MaxResults) :
                      x[2] \in DOMAIN relevanceTask[x[1]]
                      /\ relevanceTask[x[1]][x[2]] \in Settled})

\* an unsettled invocation always has an external call in flight below it, and a
\* task waiting on a limiter always has a running task of its node ahead of it
NoStall ==
    /\ topResult.status = "pending" => pc[Root] \in Unsettled
    /\ \A p \in Paths :
          /\ pc[p] = "relevance" => \E i \in DOMAIN relevanceTask[p] : <<p, i>> \in RelevanceInFlight
          /\ pc[p] = "followUps" => \E i \in DOMAIN followUpTask[p] : <<p, i>> \in FollowUpInFlight
    /\ \A x \in FollowUpInFlight : pc[Child(x[1], x[2])] \in Unsettled
    /\ \A x \in RelevanceQueued : \E i \in DOMAIN relevanceTask[x[1]] : <<x[1], i>> \in RelevanceInFlight
    /\ \A x \in FollowUpQueued : \E i \in DOMAIN followUpTask[x[1]] : <<x[1], i>> \in FollowUpInFlight

\* C2: for every concurrencyLimit >= 1, depth and branching factor a call whose
\* external calls all complete eventually returns, and every queued relevance check
\* and child build is eventually admitted: no reachable state is stalled (each
\* pending invocation and each queued task waits on an external call in flight) and
\* every step completes one more of the finitely many external calls.
C2_NoDeadlockNoStarvation == [](NoStall) /\ [][Steps' = Steps + 1]_vars

\* a tree built with concurrencyLimit 1 in which both limiters had to queue
C2_Witness ==
    /\ concurrencyLimit(config) = 1
    /\ topResult.status = "fulfilled"
    /\ Len(node[Root].children) = 2
    /\ Len(node[<<2>>].searchResults) = 2

\* C3: every entry r of the relevantResults of a returned node has
\* relevanceScores[r.url] >= 70, also when the provider returns a url twice.
C3_RelevantScoresAtLeast70 ==
    \A p \in Paths : (ValidConfig /\ Returned(p)) =>
        \A k \in DOMAIN node[p].relevantResults :
            node[p].relevanceScores[node[p].relevantResults[k].url] >= 70

\* C4: relevantResults of a returned node is the subsequence of searchResults at the
\* indexes whose classifier answer has isRelevant and relevanceScore >= 70.
C4_RelevantIsFilteredSubsequence ==
    \A p \in Paths : Returned(p) =>
        /\ Len(node[p].relevantResults) = Cardinality(PassingIndexes(p))
        /\ \A j \in DOMAIN node[p].relevantResults :
              node[p].relevantResults[j] = node[p].searchResults[Nth(PassingIndexes(p), j)]

\* a returned node whose two results were answered (true, 69) and (true, 70)
C4_Witness ==
    \E p \in Paths :
        /\ Returned(p)
        /\ Len(node[p].searchResults) = 2
        /\ CheckOf(p, 1) = [isRelevant |-> TRUE, relevanceScore |-> 69]
        /\ CheckOf(p, 2) = [isRelevant |-> TRUE, relevanceScore |-> 70]
        /\ Len(node[p].relevantResults) = 1

\* C5: for every returned node children.length = followUpQuestions.length, and both
\* are 0 when depth >= maxDepth - 1 or the node has no insights.
C5_ChildrenMatchQuestions ==
    \A p \in Paths : Returned(p) =>
        /\ Len(node[p].children) = Len(node[p].followUpQuestions)
        /\ (node[p].depth >= config.maxDepth - 1 \/ Len(node[p].insights) = 0)
              => (Len(node[p].children) = 0 /\ Len(node[p].followUpQuestions) = 0)

\* a returned root with two children, one with insights at the deepest level and one
\* without insights
C5_Witness ==
    /\ Returned(Root)
    /\ Len(node[Root].children) = 2
    /\ Len(node[<<1>>].insights) > 0
    /\ Len(node[<<2>>].insights) = 0

\* C6: with maxDepth >= 1 the root has depth 0, every child has its parent's depth
\* plus 1, and every node has 0 <= depth <= maxDepth - 1.
C6_DepthBounded ==
    config.maxDepth >= 1 =>
        /\ Invoked(Root) => node[Root].depth = 0
        /\ \A p \in Paths : Invoked(p) =>
              /\ 0 <= node[p].depth /\ node[p].depth <= config.maxDepth - 1
              /\ ~IsRoot(p) => node[p].depth = node[Parent(p)].depth + 1
              /\ \A i \in DOMAIN node[p].children :
                    node[node[p].children[i]].depth = node[p].depth + 1

\* a returned tree of two levels
C6_Witness ==
    /\ config.maxDepth = 2
    /\ Returned(Root)
    /\ Len(node[Root].children) = 2
    /\ Returned(<<2>>)

\* C7: in one invocation the search completes before any relevance check starts,
\* every relevance check completes before insight synthesis starts, insight
\* synthesis completes before follow-up generation starts, and follow-up generation
\* completes before any child call is issued.
C7_StagesInOrder ==
    \A p \in Paths :
        /\ RelevanceStarted(p) => calls[p].search = "ok"
        /\ calls[p].insights # "none" =>
              /\ calls[p].search = "ok"
              /\ \A i \in DOMAIN relevanceTask[p] : relevanceTask[p][i] = "fulfilled"
        /\ calls[p].questions # "none" => calls[p].insights = "ok"
        /\ FollowUpStarted(p) => calls[p].questions = "ok"
        /\ \A i \in 1..MaxFollowUps :
              (Child(p, i) \in Paths /\ Invoked(Child(p, i))) => calls[p].questions = "ok"

\* an invocation that went through all the stages and has issued a child call
C7_Witness ==
    \E p \in Paths :
        /\ Len(relevanceTask[p]) = 2
        /\ calls[p].questions = "ok"
        /\ FollowUpStarted(p)
        /\ pc[Child(p, 1)] = "search"

\* C8: children[i].query = followUpQuestions[i] for every returned node and every i,
\* whatever the order in which the child builds were admitted and completed.
C8_ChildrenInQuestionOrder ==
    \A p \in Paths : Returned(p) =>
        \A i \in DOMAIN node[p].children :
            node[node[p].children[i]].query = node[p].followUpQuestions[i]

\* a returned node whose second child build completed before the first
C8_Witness ==
    \E p \in Paths :
        /\ Returned(p)
        /\ followUpOrder[p] = <<2, 1>>
        /\ node[p].followUpQuestions[1] # node[p].followUpQuestions[2]

\* C9: if an external call fails in any node of the tree, the top-level call rejects
\* and the caller receives no node.
C9_FailureRejectsTopLevel ==
    failures # {} => topResult.status = "rejected"

\* a relevance check failed in a child while its sibling was still being built
C9_Witness ==
    /\ topResult.status = "rejected"
    /\ [node |-> <<1>>, call |-> "relevance"] \in failures
    /\ pc[<<2>>] \in Unsettled

\* C10: the error a failed top-level call delivers carries the query and the depth
\* of the node in which the failure occurred.
C10_ErrorCarriesQueryAndDepth ==
    (ValidConfig /\ topResult.status = "rejected") =>
        \E f \in failures :
            /\ topResult.error.query = Some(node[f.node].query)
            /\ topResult.error.depth = Some(node[f.node].depth)

\* C11: a top-level call with an invalid configuration (maxDepth below 1) fails with a
\* configuration error: it issues no search and delivers no node to the caller.
C11_InvalidConfigRejected ==
    (config.maxDepth < 1 /\ config.resultsPerQuery >= 1 /\ config.concurrencyLimit >= 1) =>
        /\ calls[Root].search = "none"
        /\ topResult.status # "fulfilled"

\* C12: the insight synthesizer is invoked for a node exactly when the node has at
\* least one relevant result; a returned node has no insights when it has no relevant
\* result and between MinInsights and MaxInsights insights otherwise.
C12_InsightsIffRelevant ==
    \A p \in Paths :
        /\ calls[p].insights # "none" <=> Len(node[p].relevantResults) > 0
        /\ Returned(p) =>
              IF Len(node[p].relevantResults) = 0
              THEN node[p].insights = <<>>
              ELSE Len(node[p].insights) \in MinInsights..MaxInsights

\* a tree returned with a node that kept a result and got MaxInsights insights, and
\* with a child whose search results were all filtered out
C12_Witness ==
    /\ topResult.status = "fulfilled"
    /\ \E p \in Paths :
           /\ Returned(p)
           /\ Len(node[p].relevantResults) > 0
           /\ Len(node[p].insights) = MaxInsights
    /\ \E q \in Paths :
           /\ Returned(q)
           /\ Len(node[q].searchResults) > 0
           /\ node[q].relevantResults = <<>>
           /\ calls[q].insights = "none"

\* C13: the follow-up generator is invoked only for a node that has at least one insight
\* and whose depth is below maxDepth - 1, and it is asked for exactly
\* followUpQuestionsPerNode questions; every returned node has either no follow-up
\* question or exactly followUpQuestionsPerNode of them.
C13_FollowUpsGuardedAndCounted ==
    \A p \in Paths :
        /\ calls[p].questions # "none" =>
              /\ Len(node[p].insights) >= 1
              /\ node[p].depth < config.maxDepth - 1
              /\ requests[p].questionCount = Some(config.followUpQuestionsPerNode)
        /\ Returned(p) =>
              Len(node[p].followUpQuestions) \in {0, config.followUpQuestionsPerNode}

\* a returned tree whose root got its two follow-up questions and whose child, at the
\* deepest level, has insights and was not asked for follow-up questions
C13_Witness ==
    /\ topResult.status = "fulfilled"
    /\ config.followUpQuestionsPerNode = MaxFollowUps
    /\ Len(node[Root].followUpQuestions) = MaxFollowUps
    /\ \E i \in 1..MaxFollowUps :
           /\ Returned(<<i>>)
           /\ Len(node[<<i>>].insights) >= 1
           /\ calls[<<i>>].questions = "none"
           /\ node[<<i>>].followUpQuestions = <<>>

\* no external call is pending anywhere in the tree
Quiescent ==
    /\ \A p \in Paths : pc[p] \notin {"search", "insights", "questions"}
    /\ RelevanceInFlight = {}

\* C14: the builder never retries: every invoked node has issued exactly one search
\* call, and for every search result returned it issues exactly one relevance check,
\* at the moment the limiter starts the check; once no call is pending, no result has
\* been skipped, whether the calls succeeded or failed.
C14_OneSearchOneCheckPerResult ==
    \A p \in Paths :
        /\ requests[p].search = IF Invoked(p) THEN 1 ELSE 0
        /\ DOMAIN requests[p].relevance = 1..Len(fullResults[p])
        /\ \A i \in DOMAIN requests[p].relevance :
               /\ requests[p].relevance[i] =
                      IF relevanceTask[p][i] = "queued" THEN 0 ELSE 1
               /\ Quiescent => requests[p].relevance[i] = 1

\* with one slot, the first of two relevance checks failed and the second was still
\* run once afterwards
C14_Witness ==
    /\ Quiescent
    /\ concurrencyLimit(config) = 1
    /\ topResult.status = "rejected"
    /\ requests[Root].search = 1
    /\ requests[Root].relevance = <<1, 1>>
    /\ relevanceTask[Root][1] = "rejected"
    /\ relevanceTask[Root][2] \in Settled

\* C15: a node is written only by the invocation that created it: in every step, a
\* node changes only if its own invocation runs in that step (is entered or resumes
\* from an await), and a node whose invocation has returned or rejected never
\* changes again, whatever its siblings, ancestors and descendants do.
C15_NodeWrittenByOwnInvocation ==
    [][\A p \in Paths :
           /\ node'[p] # node[p] => pc'[p] # pc[p]
           /\ pc[p] \in {"returned", "rejected"} => node'[p] = node[p]]_vars

\* two sibling builds interleave under a parent waiting for both, the first has
\* returned with results of its own and the parent has no children yet
C15_Witness ==
    /\ pc[Root] = "followUps"
    /\ node[Root].children = <<>>
    /\ Returned(<<1>>)
    /\ Len(node[<<1>>].relevantResults) > 0
    /\ pc[<<2>>] = "relevance"
    /\ Len(node[<<2>>].searchResults) = MaxResults

\* C16: a node whose search returned zero results is returned with searchResults,
\* relevantResults, relevanceScores, insights, followUpQuestions and children all
\* empty, and no relevance check, insight synthesis or follow-up generation is issued
\* for it.
C16_EmptySearchGivesEmptyNode ==
    \A p \in Paths :
        (calls[p].search = "ok" /\ fullResults[p] = <<>>) =>
            /\ Returned(p)
            /\ node[p].searchResults = <<>>
            /\ node[p].relevantResults = <<>>
            /\ node[p].relevanceScores = EmptyScores
            /\ node[p].insights = <<>>
            /\ node[p].followUpQuestions = <<>>
            /\ node[p].children = <<>>
            /\ relevanceTask[p] = <<>>
            /\ requests[p].relevance = <<>>
            /\ calls[p].insights = "none"
            /\ calls[p].questions = "none"
            /\ followUpTask[p] = <<>>

\* the search of a child returned nothing, while its parent kept a result
C16_Witness ==
    /\ config.maxDepth = MaxDepthBound
    /\ config.resultsPerQuery >= 1
    /\ Len(node[Root].relevantResults) > 0
    /\ calls[<<1>>].search = "ok"
    /\ fullResults[<<1>>] = <<>>
    /\ Returned(<<1>>)

----------------------------------------------------------------------------
(* Properties of summarizeResearch. *)

RECURSIVE NodesOf(_, _)
\* the nodes of a tree, each with its position in the tree
NodesOf(tree, path) ==
    {[path |-> path, node |-> tree]} \cup
    UNION {NodesOf(tree.children[i], Append(path, i)) : i \in DOMAIN tree.children}

RECURSIVE SumOfRelevant(_)
\* the sum of relevantResults.length over a set of positioned nodes
SumOfRelevant(N) ==
    IF N = {} THEN 0
    ELSE LET x == CHOOSE y \in N : TRUE
         IN Len(x.node.relevantResults) + SumOfRelevant(N \ {x})

\* position p comes before position q in depth-first pre-order: p is an ancestor of
\* q, or at the first index where they differ p takes the earlier child
Precedes(p, q) ==
    \/ Len(p) < Len(q) /\ SubSeq(q, 1, Len(p)) = p
    \/ \E k \in 1..Min(Len(p), Len(q)) :
           /\ p[k] < q[k]
           /\ SubSeq(p, 1, k - 1) = SubSeq(q, 1, k - 1)

\* the nodes of a tree as a sequence in depth-first pre-order
PreOrder(tree) ==
    LET N == NodesOf(tree, Root)
    IN [j \in 1..Cardinality(N) |->
           (CHOOSE x \in N :
                Cardinality({y \in N : Precedes(y.path, x.path)}) = j - 1).node]

RECURSIVE Flatten(_)
\* the concatenation of a sequence of sequences
Flatten(ss) == IF ss = <<>> THEN <<>> ELSE Head(ss) \o Flatten(Tail(ss))

\* C17: summarizeResearch returns totalNodesExplored equal to the number of nodes of
\* the tree, root included, totalRelevantResults equal to the sum of
\* relevantResults.length over the nodes, and as many sources as totalRelevantResults;
\* for a single node without relevant results these are 1, 0, no insight, no source.
C17_SummaryTotals ==
    summary # None =>
        LET N == NodesOf(researchTree, Root)
            s == summary.val
        IN /\ s.totalNodesExplored = Cardinality(N)
           /\ s.totalRelevantResults = SumOfRelevant(N)
           /\ Len(s.allSources) = s.totalRelevantResults
           /\ (researchTree.children = <<>> /\ researchTree.relevantResults = <<>>) =>
                  /\ s.totalNodesExplored = 1
                  /\ s.totalRelevantResults = 0
                  /\ s.allInsights = <<>>
                  /\ s.allSources = <<>>

\* a summarized tree of MaxTreeNodes nodes, some with and some without relevant
\* results, and with more search results than relevant results
C17_Witness ==
    /\ summary # None
    /\ summary.val.totalNodesExplored = MaxTreeNodes
    /\ summary.val.totalRelevantResults > 1
    /\ \E x \in NodesOf(researchTree, Root) : x.node.relevantResults = <<>>
    /\ \E x \in NodesOf(researchTree, Root) :
           Len(x.node.searchResults) > Len(x.node.relevantResults)

\* C18: summarizeResearch visits the tree in depth-first pre-order: allInsights is the
\* concatenation of the nodes' insights in that order, and allSources the
\* concatenation, in that order, of one SourceInfo per relevant result of each node,
\* in relevantResults order, carrying the node's query and the node's score for the
\* url of the result, 0 when the url has no score.
C18_SummaryInPreOrder ==
    summary # None =>
        LET order == PreOrder(researchTree)
            sourcesOf(n) ==
                [i \in 1..Len(n.relevantResults) |->
                    [title |-> n.relevantResults[i].title,
                     url |-> n.relevantResults[i].url,
                     snippet |-> n.relevantResults[i].snippet,
                     query |-> n.query,
                     relevanceScore |->
                         IF n.relevantResults[i].url \in DOMAIN n.relevanceScores
                         THEN n.relevanceScores[n.relevantResults[i].url]
                         ELSE 0]]
        IN /\ summary.val.allInsights =
                  Flatten([j \in 1..Len(order) |-> order[j].insights])
           /\ summary.val.allSources =
                  Flatten([j \in 1..Len(order) |-> sourcesOf(order[j])])

\* a summarized tree in which the first child of the root has a child of its own and a
\* sibling, every node has insights and relevant results, and a source has score 0
\* because its url has no score
C18_Witness ==
    /\ summary # None
    /\ Len(researchTree.children) = 2
    /\ Len(researchTree.children[1].children) = 1
    /\ \A x \in NodesOf(researchTree, Root) :
           x.node.insights # <<>> /\ x.node.relevantResults # <<>>
    /\ \E i \in DOMAIN summary.val.allSources :
           /\ summary.val.allSources[i].relevanceScore = 0
           /\ summary.val.allSources[i].query = researchTree.children[1].children[1].query

----------------------------------------------------------------------------
(* Properties of the source deduplication. *)

\* the positions of the input entries with the given url
GroupOf(url) == {i \in DOMAIN allSources : allSources[i].url = url}
\* the position at which the url first occurs in the input
FirstOccurrence(url) == CHOOSE i \in GroupOf(url) : \A j \in GroupOf(url) : i <= j
\* the first position, in input order, with the highest score of the url's group
FirstBest(url) ==
    CHOOSE i \in GroupOf(url) :
        /\ \A j \in GroupOf(url) :
               allSources[j].relevanceScore <= allSources[i].relevanceScore
        /\ \A j \in GroupOf(url) :
               allSources[j].relevanceScore = allSources[i].relevanceScore => i <= j

\* C19: the deduplicated source list has exactly one entry per distinct url of the
\* input, and the entry kept for a url is the first entry, in input order, that has
\* the highest relevanceScore of the url's group.
C19_OneEntryPerUrlFirstBest ==
    uniqueSources # None =>
        LET out == uniqueSources.val
        IN /\ \A i \in DOMAIN allSources :
                  Cardinality({k \in DOMAIN out : out[k].url = allSources[i].url}) = 1
           /\ \A k \in DOMAIN out :
                  /\ GroupOf(out[k].url) # {}
                  /\ out[k] = allSources[FirstBest(out[k].url)]

\* a url occurred three times, with a higher score at its second and third occurrence:
\* the second entry was kept
C19_Witness ==
    /\ uniqueSources # None
    /\ Len(allSources) >= 3
    /\ allSources[1].url = allSources[2].url
    /\ allSources[2].url = allSources[3].url
    /\ allSources[1].relevanceScore < allSources[2].relevanceScore
    /\ allSources[2].relevanceScore = allSources[3].relevanceScore
    /\ \E k \in DOMAIN uniqueSources.val : uniqueSources.val[k] = allSources[2]

\* C20: the deduplicated source list is sorted by relevanceScore in non-increasing
\* order, and entries with equal relevanceScore are ordered by the position at which
\* their url first occurred in the input, also when the kept entry of a url replaced
\* an earlier one.
C20_SortedTiesByFirstOccurrence ==
    uniqueSources # None =>
        LET out == uniqueSources.val
        IN \A i, j \in DOMAIN out :
               i < j =>
                   /\ out[i].relevanceScore >= out[j].relevanceScore
                   /\ out[i].relevanceScore = out[j].relevanceScore =>
                          FirstOccurrence(out[i].url) < FirstOccurrence(out[j].url)

\* the entry kept for the first url replaced a lower-scored one and comes from behind
\* the entry of the second url, with which it ties: it is still listed first
C20_Witness ==
    /\ uniqueSources # None
    /\ Len(allSources) = 3
    /\ allSources[1].url = allSources[3].url
    /\ allSources[1].url # allSources[2].url
    /\ allSources[1].relevanceScore < allSources[3].relevanceScore
    /\ allSources[2].relevanceScore = allSources[3].relevanceScore
    /\ uniqueSources.val = <<allSources[3], allSources[2]>>

----------------------------------------------------------------------------
(* Properties of the insight deduplication. *)

\* the position at which the string first occurs in the concatenated input
FirstInsight(x) ==
    CHOOSE i \in DOMAIN combinedInsights :
        combinedInsights[i] = x /\ \A j \in 1..(i - 1) : combinedInsights[j] # x

\* C21: the deduplicated insight list has no two equal strings and holds every
\* distinct input string exactly once, in order of first occurrence in the
\* concatenated input; its length is the number of distinct input strings, and
\* deduplicating it again changes nothing.
C21_InsightsUniqueInFirstOrder ==
    uniqueInsights # None =>
        LET out == uniqueInsights.val
            distinct == {combinedInsights[i] : i \in DOMAIN combinedInsights}
        IN /\ \A i, j \in DOMAIN out : out[i] = out[j] => i = j
           /\ {out[i] : i \in DOMAIN out} = distinct
           /\ Len(out) = Cardinality(distinct)
           /\ \A i, j \in DOMAIN out :
                  i < j => FirstInsight(out[i]) < FirstInsight(out[j])
           /\ DeduplicateInsights(out) = out

\* an insight occurred again after another one had been seen
C21_Witness ==
    /\ uniqueInsights # None
    /\ Len(combinedInsights) = MaxCombinedInsights
    /\ combinedInsights[1] = combinedInsights[3]
    /\ combinedInsights[1] # combinedInsights[2]
    /\ uniqueInsights.val = <<combinedInsights[1], combinedInsights[2]>>

----------------------------------------------------------------------------
(* Properties of the citation pass. *)

\* the markers of a text: <<i, j>> when an opening bracket at i, one or more digits
\* and a closing bracket at j follow one another
Markers(text) ==
    {m \in (DOMAIN text) \X (DOMAIN text) :
        /\ m[1] + 1 < m[2]
        /\ text[m[1]] = "["
        /\ text[m[2]] = "]"
        /\ \A k \in (m[1] + 1)..(m[2] - 1) : IsDigit(text[k])}

\* the number a marker of a text carries
MarkerNumber(text, m) == parseInt(SubSeq(text, m[1] + 1, m[2] - 1))

RECURSIVE SpecifiedValidation(_, _, _)
\* the text the remap rule prescribes, from position i on: a marker with a number in
\* 1..max and every character outside markers is kept, every other marker [n]
\* becomes [r] with r = ((|n| - 1) mod max) + 1
SpecifiedValidation(text, i, max) ==
    IF i > Len(text) THEN <<>>
    ELSE IF \E m \in Markers(text) : m[1] = i
         THEN LET m == CHOOSE x \in Markers(text) : x[1] = i
                  n == MarkerNumber(text, m)
              IN (IF n \in 1..max
                  THEN SubSeq(text, m[1], m[2])
                  ELSE <<"[">> \o NumberToString(((Abs(n) - 1) % max) + 1) \o <<"]">>)
                 \o SpecifiedValidation(text, m[2] + 1, max)
         ELSE <<text[i]>> \o SpecifiedValidation(text, i + 1, max)

\* C22: after the citation pass with maxCitationNumber >= 1, every marker [n] of the
\* validated text has 1 <= n <= maxCitationNumber.
C22_MarkersInRange ==
    (validatedReport # None /\ maxCitationNumber >= 1) =>
        \A m \in Markers(validatedReport.val) :
            MarkerNumber(validatedReport.val, m) \in 1..maxCitationNumber

\* C23: with maxCitationNumber >= 1 the citation pass keeps every marker with a number
\* in 1..maxCitationNumber and every character outside markers, and replaces every
\* other marker [n] by [r] with r = ((|n| - 1) mod maxCitationNumber) + 1, each
\* marker on its own.
C23_RemapAsSpecified ==
    (validatedReport # None /\ maxCitationNumber >= 1) =>
        validatedReport.val = SpecifiedValidation(reportText, 1, maxCitationNumber)

\* C24: with maxCitationNumber = 0 the citation pass does not apply the remap rule: it
\* rewrites no marker, so the text is returned as it was and no marker that is not a
\* number is written.
C24_NoRemapWithoutSources ==
    (validatedReport # None /\ maxCitationNumber = 0) =>
        validatedReport.val = reportText

\* C30: with maxCitationNumber >= 1 the citation pass is idempotent: applied to a text
\* it has validated, it returns that text.
C30_ValidationIdempotent ==
    (revalidatedReport # None /\ maxCitationNumber >= 1) =>
        revalidatedReport.val = validatedReport.val

\* a text with a marker that the first pass rewrote was validated a second time
C30_Witness ==
    /\ revalidatedReport # None
    /\ maxCitationNumber = MaxCitationBound
    /\ Markers(reportText) # {}
    /\ validatedReport.val # reportText

----------------------------------------------------------------------------
(* Properties of toLightweightResult. *)

\* the text of the source result, the empty string when it is missing or null
SourceText == IF sourceResult.text.some THEN sourceResult.text.val ELSE ""

\* C25: the snippet is the first min(300, length) characters of the source text,
\* without padding or adjustment: a text of 500 characters gives its first 300
\* characters, a text of at most 300 characters is kept whole, and a missing or empty
\* text gives the empty string.
C25_SnippetIsPrefixOfAtMost300 ==
    lightweightResult # None =>
        LET snippet == lightweightResult.val.snippet
        IN /\ Len(snippet) = Min(300, Len(SourceText))
           /\ snippet = SubSeq(SourceText, 1, Len(snippet))
           /\ Len(SourceText) <= 300 => snippet = SourceText
           /\ Len(SourceText) = 500 => Len(snippet) = 300
           /\ (~sourceResult.text.some \/ SourceText = "") => snippet = ""

\* a text of the greatest length was converted and cut to the limit
C25_Witness ==
    /\ lightweightResult # None
    /\ Len(SourceText) = MaxSourceText
    /\ Len(lightweightResult.val.snippet) = SnippetLimit
    /\ lightweightResult.val.snippet # SourceText

\* C26: the title is "Untitled" when the source title is null, missing or the empty
\* string and the source title otherwise; url and provider score are copied
\* unchanged, and no other field of the source result is kept.
C26_TitleDefaultAndCopiedFields ==
    lightweightResult # None =>
        LET out == lightweightResult.val
        IN /\ out.title = IF sourceResult.title.some /\ sourceResult.title.val # ""
                          THEN sourceResult.title.val
                          ELSE "Untitled"
           /\ out.url = sourceResult.url
           /\ out.score = sourceResult.score
           /\ DOMAIN out = {"title", "url", "snippet", "score"}

\* a result with an empty title, a provider score and an author was converted
C26_Witness ==
    /\ lightweightResult # None
    /\ sourceResult.title = Some("")
    /\ sourceResult.score = Some(1)
    /\ sourceResult.author # None
    /\ lightweightResult.val.title = "Untitled"

----------------------------------------------------------------------------
(* Further properties of the research tree builder. *)

\* the last position at which the url occurs in the search results of a node
LastOccurrence(p, url) ==
    CHOOSE i \in DOMAIN node[p].searchResults :
        /\ node[p].searchResults[i].url = url
        /\ \A j \in DOMAIN node[p].searchResults :
               node[p].searchResults[j].url = url => j <= i

\* C27: in every returned node the keys of relevanceScores are the distinct urls of
\* its searchResults, and the score stored for a url is the classifier's score for
\* the last result with that url in provider order, in whatever order the relevance
\* checks completed.
C27_ScoresByUrlLastWins ==
    \A p \in Paths :
        Returned(p) =>
            /\ DOMAIN node[p].relevanceScores =
                   {node[p].searchResults[i].url : i \in DOMAIN node[p].searchResults}
            /\ \A url \in DOMAIN node[p].relevanceScores :
                   node[p].relevanceScores[url] =
                       CheckOf(p, LastOccurrence(p, url)).relevanceScore

\* the provider returned the same url twice, the classifier scored the two results
\* differently while both checks ran at the same time, and the node was returned
C27_Witness ==
    /\ Returned(Root)
    /\ concurrencyLimit(config) >= 2
    /\ Len(node[Root].searchResults) = 2
    /\ node[Root].searchResults[1].url = node[Root].searchResults[2].url
    /\ CheckOf(Root, 1).relevanceScore > CheckOf(Root, 2).relevanceScore
    /\ node[Root].relevanceScores[node[Root].searchResults[1].url] =
           CheckOf(Root, 2).relevanceScore

\* the relevance checks of a node that are in flight
RunningChecks(p) == {i \in DOMAIN relevanceTask[p] : relevanceTask[p][i] = "running"}

\* C28: at most concurrencyLimit relevance checks of one node are in flight at any
\* instant, a concurrencyLimit of zero counting as 1, and a queued relevance check
\* starts only in a step in which a running check of the same node completes.
C28_PerNodeRelevanceBound ==
    /\ [](\A p \in Paths :
              Cardinality(RunningChecks(p)) <=
                  IF config.concurrencyLimit = 0 THEN 1 ELSE config.concurrencyLimit)
    /\ [][\A p \in Paths : \A i \in DOMAIN relevanceTask[p] :
              (relevanceTask[p][i] = "queued" /\ relevanceTask'[p][i] = "running") =>
                  \E j \in RunningChecks(p) : relevanceTask'[p][j] \in Settled]_vars

\* with one slot and two results, the second check runs after the first completed
C28_Witness ==
    /\ concurrencyLimit(config) = 1
    /\ Len(relevanceTask[Root]) = 2
    /\ relevanceTask[Root][1] = "fulfilled"
    /\ relevanceTask[Root][2] = "running"

\* the external calls started so far, over the whole tree
StartedCalls ==
    {<<p, "search", 1>> : p \in {q \in Paths : requests[q].search > 0}}
    \cup {<<x[1], "relevance", x[2]>> :
             x \in {y \in Paths \X (1..MaxResults) :
                       /\ y[2] \in DOMAIN requests[y[1]].relevance
                       /\ requests[y[1]].relevance[y[2]] > 0}}
    \cup {<<p, "insights", 1>> : p \in {q \in Paths : calls[q].insights # "none"}}
    \cup {<<p, "questions", 1>> : p \in {q \in Paths : calls[q].questions # "none"}}

\* C29 as stated: once the top-level call has rejected, no relevance check and no
\* subtree of that tree starts a new external call.
C29_NoCallAfterRejection ==
    [][topResult.status = "rejected" => StartedCalls' = StartedCalls]_vars

\* C29: once the top-level call has rejected, the relevance checks still queued and the
\* subtrees still being built are not cancelled and may start further external
\* calls, but the outcome is final: the call stays rejected with the error of the
\* first failure, and the node of the root no longer changes.
C29_RejectionIsFinal ==
    [][topResult.status = "rejected" =>
           /\ topResult' = topResult
           /\ node'[Root] = node[Root]
           /\ StartedCalls \subseteq StartedCalls']_vars

\* with one slot the first child's search failed, which rejected the top-level call,
\* and the build of the second child was started afterwards and ran its search
C29_Witness ==
    /\ concurrencyLimit(config) = 1
    /\ topResult.status = "rejected"
    /\ topResult.error = SearchError
    /\ failures = {[node |-> <<1>>, call |-> "search"]}
    /\ calls[<<2>>].search = "ok"
    /\ <<<<2>>, "search", 1>> \in StartedCalls

----------------------------------------------------------------------------
(* The output of a workflow run. *)

RECURSIVE SumTo(_, _)
\* f[1] + ... + f[n]
SumTo(f, n) == IF n = 0 THEN 0 ELSE SumTo(f, n - 1) + f[n]

\* the nodes of the tree of initial query i
NodesOfQuery(i) == NodesOf(researchTrees[i], Root)

\* C31: in every workflow output, totalNodesExplored and totalRelevantResults are the
\* sums of the per-tree summaries over all initial queries (which count the nodes and
\* the relevant results of the trees), uniqueInsights is the length of
\* combinedInsights, uniqueSources is the length of sources and equals citationCount,
\* uniqueSources is at most totalRelevantResults, and no url occurs twice in sources.
C31_OutputTotals ==
    finalResult # None =>
        LET out == finalResult.val
            n == Len(summaries.val)
        IN /\ n = InitialQueries
           /\ out.totalNodesExplored =
                  SumTo([i \in 1..n |-> summaries.val[i].totalNodesExplored], n)
           /\ out.totalRelevantResults =
                  SumTo([i \in 1..n |-> summaries.val[i].totalRelevantResults], n)
           /\ out.totalNodesExplored =
                  SumTo([i \in 1..n |-> Cardinality(NodesOfQuery(i))], n)
           /\ out.totalRelevantResults =
                  SumTo([i \in 1..n |-> SumOfRelevant(NodesOfQuery(i))], n)
           /\ out.uniqueInsights = Len(out.combinedInsights)
           /\ out.uniqueSources = Len(out.sources)
           /\ out.uniqueSources = out.reportMetadata.citationCount
           /\ out.uniqueSources <= out.totalRelevantResults
           /\ \A i, j \in DOMAIN out.sources :
                  i # j => out.sources[i].url # out.sources[j].url

\* a run has returned an output for trees of several nodes in which different queries
\* found the same url, so that there are fewer sources than relevant results
C31_Witness ==
    /\ finalResult # None
    /\ runStatus = "complete"
    /\ finalResult.val.totalNodesExplored > InitialQueries
    /\ finalResult.val.uniqueSources >= 2
    /\ finalResult.val.uniqueSources < finalResult.val.totalRelevantResults
    /\ \E i \in 1..InitialQueries :
           summaries.val[i].totalRelevantResults # summaries.val[InitialQueries].totalRelevantResults

----------------------------------------------------------------------------
(* The agent. *)

\* the four fields of the agent state that describe its workflow
WorkflowFields(s) ==
    <<s.currentWorkflowId, s.workflowStatus, s.researchTopic, s.researchDepth>>

\* C32: a research_request handled while the stored workflowStatus is "running"
\* creates no workflow (no create call is issued, no instance appears), sends the
\* requester one error message, schedules no check and leaves currentWorkflowId,
\* workflowStatus, researchTopic and researchDepth unchanged; a request handled while
\* the stored workflow is completed or failed clears the workflow state and goes on to
\* the create call that starts the new workflow.
C32_RequestWhileRunning ==
    [][\A c \in Connections, data \in ResearchRequests :
           handleResearchRequest(c, data) =>
               /\ agentState.workflowStatus = Some("running") =>
                      /\ \E message \in {"Research already in progress"} :
                             sent' = <<SendTo(c, Error(message))>>
                      /\ instances' = instances
                      /\ handler' = handler
                      /\ scheduled' = scheduled /\ querying' = querying
                      /\ WorkflowFields(agentState') = WorkflowFields(agentState)
               /\ agentState.workflowStatus \in {Some("completed"), Some("failed")} =>
                      /\ WorkflowFields(agentState') = <<Null, Null, Null, Null>>
                      /\ handler'[c] = [kind |-> "request", data |-> data]
                      /\ sent' = <<>>]_vars

\* a request has just been refused because workflow w2 is running, and w2 was started
\* by a request that found the completed workflow w1 stored
C32_Witness ==
    /\ \E c \in Connections : sent = <<SendTo(c, Error("Research already in progress"))>>
    /\ agentState.currentWorkflowId = Some(WorkflowId(2))
    /\ agentState.workflowStatus = Some("running")
    /\ instances[WorkflowId(1)].status = "complete"
    /\ completions[WorkflowId(1)] = 1

\* the workflow instances that were created and have neither finished nor been
\* terminated
Running == {w \in WorkflowIds : instances[w].status = "running"}

\* C33: under every interleaving of research_request handlers, each suspended at the
\* create call between checking the state and recording the new workflow, at most one
\* workflow is created while no created workflow has finished or been cancelled: two
\* concurrent requests never both start a workflow.
C33_AtMostOneWorkflow == Cardinality(Running) <= 1

\* the messages of a step are one message of the given type to connection c
SentOnly(messages, c, type) ==
    /\ Len(messages) = 1
    /\ messages[1].to = {c}
    /\ messages[1].message.type = type

\* C34: a cancel_request leads to a terminate call only if its workflowId equals
\* currentWorkflowId and the stored workflowStatus is "running"; in every other case
\* the agent sends the requester an error, terminates nothing and leaves its state
\* unchanged.  An instance becomes terminated only by such a call.  When the call has
\* returned, currentWorkflowId, workflowStatus, topic and depth are null and one
\* research_completed message with status error goes to the requester; when it throws,
\* the state is unchanged and an error goes to the requester.
C34_CancelOnlyCurrentRunning ==
    [][/\ \A c \in Connections, w \in WorkflowIds :
              handleCancelRequest(c, w) =>
                  /\ agentState' = agentState
                  /\ instances' = instances
                  /\ IF /\ agentState.currentWorkflowId = Some(w)
                        /\ agentState.workflowStatus = Some("running")
                     THEN /\ handler'[c] = [kind |-> "cancel", workflowId |-> w]
                          /\ sent' = <<>>
                     ELSE /\ handler' = handler
                          /\ SentOnly(sent', c, "error")
       /\ \A w \in WorkflowIds :
              instances[w].status # "terminated" /\ instances'[w].status = "terminated" =>
                  \E c \in Connections :
                      handler[c] = [kind |-> "cancel", workflowId |-> w] /\ handler'[c] = Idle
       /\ \A c \in Connections :
              WorkflowTerminated(c) =>
                  /\ WorkflowFields(agentState') = <<Null, Null, Null, Null>>
                  /\ SentOnly(sent', c, "research_completed")
                  /\ sent'[1].message.status = "error"
       /\ \A c \in Connections :
              TerminateFails(c) =>
                  /\ agentState' = agentState
                  /\ instances' = instances
                  /\ SentOnly(sent', c, "error")]_vars

\* a cancel of the running current workflow has just succeeded: the instance is
\* terminated, the state is cleared and the requester has been told
C34_Witness ==
    \E c \in Connections, w \in WorkflowIds :
        /\ sent = <<SendTo(c, ResearchFailed("cancelled", "Research cancelled by user"))>>
        /\ instances[w].status = "terminated"
        /\ agentState = NullState
        /\ handler[c] = Idle

\* C35: after a cancel_request has succeeded and cleared the workflow state,
\* currentWorkflowId and workflowStatus stay null until the next research_request
\* starts a workflow, also in the step in which a checkWorkflowStatus task of the
\* cancelled workflow, which read the agent state before the cancel, completes its
\* status query after it.
C35_ClearedStaysCleared ==
    [][\A task \in BagToSet(querying) :
           /\ cancelCleared
           /\ instances[task.data.workflowId].status = "terminated"
           /\ StatusChecked(task)
           => /\ agentState'.currentWorkflowId = Null
              /\ agentState'.workflowStatus = Null]_vars

\* C36: a scheduled checkWorkflowStatus task whose workflowId differs from
\* currentWorkflowId when it runs queries no workflow, sends and broadcasts nothing,
\* changes no agent state and schedules no further check: the task is gone and
\* everything else is as before.
C36_StaleCheckDoesNothing ==
    [][\A data \in BagToSet(scheduled) :
           /\ agentState.currentWorkflowId # Some(data.workflowId)
           /\ checkWorkflowStatus(data)
           => /\ querying' = querying
              /\ sent' = <<>>
              /\ agentState' = agentState
              /\ instances' = instances
              /\ \A other \in BagToSet(scheduled') :
                     CopiesIn(other, scheduled') <= CopiesIn(other, scheduled)
              /\ CopiesIn(data, scheduled') = CopiesIn(data, scheduled) - 1]_vars

\* the workflow was cancelled while its check was scheduled; the check has run since:
\* no task is left, nothing was broadcast about the workflow and the state is still
\* cleared
C36_Witness ==
    /\ cancelCleared
    /\ instances[WorkflowId(1)].status = "terminated"
    /\ instances[WorkflowId(2)].status = "none"
    /\ completions[WorkflowId(1)] = 0
    /\ agentState = NullState
    /\ scheduled = EmptyBag
    /\ querying = EmptyBag
    /\ sent = <<>>

\* one of the messages just sent has the given type and is about workflow w: it
\* carries its id, or (a research_completed with status error carries no id) its topic
SentAbout(type, w) ==
    \E i \in DOMAIN sent :
        LET message == sent[i].message
        IN /\ message.type = type
           /\ instances[w].status # "none"
           /\ IF type = "research_started" THEN message.workflowId = w
              ELSE IF message.status = "completed" THEN message.metadata.workflowId = w
              ELSE message.topic = instances[w].params.val.searchTopic

\* C37: every research_request that was acknowledged with research_started is
\* eventually followed by a research_completed message (completed or error) about its
\* workflow, provided scheduled checks keep running and the workflow ends or the
\* status query fails.
C37_StartedLeadsToCompleted ==
    \A w \in WorkflowIds :
        SentAbout("research_started", w) ~> SentAbout("research_completed", w)

\* C38: for one workflow the agent broadcasts the research_completed result at most
\* once, also when clients reconnect while the workflow is running and each such
\* connection schedules monitoring for it again.
C38_BroadcastAtMostOnce == \A w \in WorkflowIds : completions[w] <= 1

\* the workflow the agent tracks has ended
TrackedEnded ==
    /\ agentState.currentWorkflowId.some
    /\ instances[agentState.currentWorkflowId.val].status \in
           {"complete", "errored", "terminated"}

\* what a connection is told first, once the status query of its onConnect returned
ReportsTrackedWorkflow(c) ==
    LET currentState == handler[c].currentState
        id == currentState.currentWorkflowId.val
        status == instances[id].status
    IN /\ Len(sent') >= 1
       /\ \A i \in DOMAIN sent' : sent'[i].to = {c}
       /\ status = "running" =>
              sent' = <<SendTo(c, ResearchStarted(currentState.researchTopic.val, id,
                                                  currentState.workflowStartTime,
                                                  currentState.researchDepth))>>
       /\ status = "complete" =>
              /\ Len(sent') = 2
              /\ sent'[1].message.type = "connected"
              /\ sent'[1].message.status = "completed"
              /\ sent'[2].message.type = "research_completed"
              /\ sent'[2].message.status = "completed"
              /\ sent'[2].message.report = OutputOf(instances[id]).report
       /\ status \notin {"running", "complete"} =>
              /\ Len(sent') = 2
              /\ sent'[1].message.type = "connected"
              /\ sent'[1].message.status = "failed"
              /\ sent'[2].message.type = "research_completed"
              /\ sent'[2].message.status = "error"

\* C39: on every new connection the agent first reports the state of its tracked
\* workflow (ready without one; research_started with the stored topic, start time
\* and depth for a running one; connected/completed and the report for a complete
\* one; connected/failed and an error otherwise), and completion or failure never
\* clears currentWorkflowId: once the tracked workflow has ended it stays tracked,
\* for replay on every later connection, until a research_request or a cancel.
C39_ReplayUntilRequestOrCancel ==
    [][/\ \A c \in Connections :
              /\ OnConnect(c) /\ ~agentState.currentWorkflowId.some
                     => sent' = <<SendTo(c, Ready)>>
              /\ StatusReported(c) => ReportsTrackedWorkflow(c)
       /\ TrackedEnded /\ agentState'.currentWorkflowId # agentState.currentWorkflowId
              => \/ \E c \in Connections, data \in ResearchRequests :
                        handleResearchRequest(c, data)
                 \/ \E c \in Connections : WorkflowCreated(c) \/ WorkflowCreateFails(c)
                 \/ \E c \in Connections : WorkflowTerminated(c)]_vars

====
